---- MODULE Spec2Model ----
(***************************************************************************)
(* Structural editor of the Cairn / Note Assembler plugin (src/src/main.ts) *)
(*                                                                         *)
(* A document text is modelled by the sequence of its lines, i.e. by the   *)
(* value of content.split("\n"): the text "a\n" is <<"a", "">> and the     *)
(* empty text is <<"">>.  lines.join("\n") is the identity on this         *)
(* representation.  A line is a TLA+ string and the regular expressions of *)
(* the source are computed on its characters.  Line numbers are 0-based as *)
(* in the source.                                                          *)
(***************************************************************************)
EXTENDS Integers, Sequences, FiniteSets, TLC

VARIABLES doc, prev, op, committed, threw, notice, steps,
          vault, vaultPrev, modal, out, editor, calls, project, saving

vars ==
  <<doc, prev, op, committed, threw, notice, steps, vault, vaultPrev, modal, out,
    editor, calls, project, saving>>

---------------------------------------------------------------------------
(* Bounds *)

MaxBody == 2
MaxIdx == 3
MaxOps == 2
MaxCalls == 4

---------------------------------------------------------------------------
(* Settings *)

pinnedSectionName == "Sources"

---------------------------------------------------------------------------
(* const v = ...; F(v) : the value is computed once and then named *)

With(v, F(_)) == CHOOSE r \in {F(x) : x \in {v}} : TRUE

Min(a, b) == IF a < b THEN a ELSE b
Max(a, b) == IF a > b THEN a ELSE b

---------------------------------------------------------------------------
(* Characters and lines *)

Char(s, i) == SubSeq(s, i, i)

\* whitespace as removed by String.prototype.trim (the model's texts use the space only)
IsWs(c) == c = " "

\* line.trim() === ""
IsBlank(s) == \A i \in 1..Len(s) : IsWs(Char(s, i))

\* line.trimEnd()
TrimEndLine(s) ==
  LET k == CHOOSE i \in 0..Len(s) :
             /\ \A j \in (i + 1)..Len(s) : IsWs(Char(s, j))
             /\ (i = 0 \/ ~IsWs(Char(s, i)))
  IN  SubSeq(s, 1, k)

\* line.trimStart()
TrimStartLine(s) ==
  LET k == CHOOSE i \in 1..(Len(s) + 1) :
             /\ \A j \in 1..(i - 1) : IsWs(Char(s, j))
             /\ (i = Len(s) + 1 \/ ~IsWs(Char(s, i)))
  IN  SubSeq(s, k, Len(s))

\* line.trim()
TrimLine(s) == TrimStartLine(TrimEndLine(s))

\* line.match(/^## (.+)$/)
HeadingMatch(s) == Len(s) >= 4 /\ SubSeq(s, 1, 3) = "## "

\* match[1] of /^## (.+)$/
HeadingText(s) == SubSeq(s, 4, Len(s))

\* m && m[1].trim() === pinnedName
IsPinnedHeading(s) == HeadingMatch(s) /\ TrimLine(HeadingText(s)) = pinnedSectionName

\* line.match(/^---+$/)
IsHR(s) == Len(s) >= 3 /\ \A i \in 1..Len(s) : Char(s, i) = "-"

\* line.startsWith("> ") || line === ">"
IsQuoteLine(s) == (Len(s) >= 2 /\ SubSeq(s, 1, 2) = "> ") \/ s = ">"

\* s.startsWith(p)
StartsWith(s, p) == Len(s) >= Len(p) /\ SubSeq(s, 1, Len(p)) = p

\* s.includes(p), p without a newline
LineIncludes(s, p) == \E i \in 1..(Len(s) - Len(p) + 1) : SubSeq(s, i, i + Len(p) - 1) = p

---------------------------------------------------------------------------
(* Arrays of lines (JavaScript semantics, 0-based) *)

\* lines.slice(a, b) for a, b >= 0
Slice(lines, a, b) ==
  With(Min(b, Len(lines)), LAMBDA e :
    IF a >= e THEN <<>> ELSE SubSeq(lines, a + 1, e))

\* lines.splice(start, count) : the array after the removal
Splice(lines, start, count) ==
  Slice(lines, 0, start) \o Slice(lines, start + Max(count, 0), Len(lines))

\* lines.splice(start, 0, item) : the array after the insertion
SpliceIn(lines, start, item) ==
  Slice(lines, 0, start) \o <<item>> \o Slice(lines, start, Len(lines))

\* number of lines left by: while (a.length > 0 && a[a.length - 1].trim() === "") a.pop()
RECURSIVE PopCount(_, _)
PopCount(lines, n) ==
  IF n > 0 /\ IsBlank(lines[n]) THEN PopCount(lines, n - 1) ELSE n

PopBlank(lines) == With(lines, LAMBDA a : SubSeq(a, 1, PopCount(a, Len(a))))

\* number of lines removed by: while (a.length > 0 && a[0].trim() === "") a.shift()
RECURSIVE ShiftCount(_, _)
ShiftCount(lines, n) ==
  IF n < Len(lines) /\ IsBlank(lines[n + 1]) THEN ShiftCount(lines, n + 1) ELSE n

ShiftBlank(lines) == With(lines, LAMBDA a : SubSeq(a, ShiftCount(a, 0) + 1, Len(a)))

\* a.join("\n") as a text: the empty array joins to the empty string
Join(lines) == With(lines, LAMBDA a : IF a = <<>> THEN <<"">> ELSE a)

---------------------------------------------------------------------------
(* Texts (strings with newlines, as sequences of lines) *)

\* a + b
Cat(a, b) ==
  With(a, LAMBDA x : With(b, LAMBDA y :
    SubSeq(x, 1, Len(x) - 1) \o <<x[Len(x)] \o y[1]>> \o SubSeq(y, 2, Len(y))))

\* t1 + t2 + ... + tn
RECURSIVE CatUpTo(_, _)
CatUpTo(ts, n) == IF n = 1 THEN ts[1] ELSE Cat(CatUpTo(ts, n - 1), ts[n])

CatAll(ts) == With(ts, LAMBDA v : CatUpTo(v, Len(v)))

\* text.trimEnd()
TrimEnd(t) ==
  With(PopBlank(t), LAMBDA p :
    IF p = <<>> THEN <<"">>
    ELSE SubSeq(p, 1, Len(p) - 1) \o <<TrimEndLine(p[Len(p)])>>)

\* text.trimStart()
TrimStart(t) ==
  With(ShiftBlank(t), LAMBDA p :
    IF p = <<>> THEN <<"">>
    ELSE <<TrimStartLine(p[1])>> \o SubSeq(p, 2, Len(p)))

\* text.trim()
Trim(t) == TrimStart(TrimEnd(t))

\* text.includes(p), p without a newline
Includes(t, p) == With(t, LAMBDA x : \E i \in 1..Len(x) : LineIncludes(x[i], p))

\* end (1-based) of the run of empty lines that starts at line i
RECURSIVE RunEnd(_, _)
RunEnd(t, i) == IF i < Len(t) /\ t[i + 1] = "" THEN RunEnd(t, i + 1) ELSE i

\* text.replace(/\n{3,}/g, "\n\n").  A maximal run of empty lines i..j
\* (1-based) stands for (j - i) newlines plus one for each neighbouring
\* line that exists; a run of three or more newlines is cut to two.
CollapseNewlines(text) ==
  With(text, LAMBDA t :
    LET from[i \in 1..(Len(t) + 1)] ==
          IF i > Len(t) THEN <<>>
          ELSE IF t[i] # "" THEN <<t[i]>> \o from[i + 1]
          ELSE With(RunEnd(t, i), LAMBDA j :
                 LET a == IF i > 1 THEN 1 ELSE 0
                     b == IF j < Len(t) THEN 1 ELSE 0
                     cnt == j - i + 1
                     run == cnt - 1 + a + b
                 IN  [k \in 1..(IF run >= 3 THEN 3 - a - b ELSE cnt) |-> ""]
                       \o from[j + 1])
    IN  from[1])

---------------------------------------------------------------------------
(* Parsers *)

\* NewSection with the heading text trimmed
NewSectionTrimmed(lines, i) ==
  [heading |-> TrimLine(HeadingText(lines[i + 1])),
   startLine |-> i,
   endLine |-> Len(lines),
   pinned |-> TrimLine(HeadingText(lines[i + 1])) = pinnedSectionName]

\* the section opened by the heading on line i
NewSection(lines, i) ==
  [heading |-> HeadingText(lines[i + 1]),
   startLine |-> i,
   endLine |-> Len(lines),
   pinned |-> TrimLine(HeadingText(lines[i + 1])) = pinnedSectionName]

\* parseSections that leaves endLine of a closed section at lines.length
parseSectionsOpenEnd(content) ==
  With(content, LAMBDA lines :
    LET scan[i \in 0..Len(lines)] ==
          IF i = 0 THEN <<>>
          ELSE IF HeadingMatch(lines[i])
               THEN Append(scan[i - 1], NewSection(lines, i - 1))
               ELSE scan[i - 1]
    IN  scan[Len(lines)])

\* the loop of parseSections: the sections closed before line i, and the
\* open one (current) as <<>> or <<section>>
parseSections(content) ==
  With(content, LAMBDA lines :
    LET scan[i \in 0..Len(lines)] ==
          IF i = 0 THEN [sections |-> <<>>, current |-> <<>>]
          ELSE With(scan[i - 1], LAMBDA s :
                 IF HeadingMatch(lines[i])
                 THEN [sections |-> IF s.current # <<>>
                                    THEN Append(s.sections,
                                                [s.current[1] EXCEPT !.endLine = i - 1])
                                    ELSE s.sections,
                       current |-> <<NewSection(lines, i - 1)>>]
                 ELSE s)
    IN  With(scan[Len(lines)], LAMBDA s :
          IF s.current # <<>>
          THEN Append(s.sections, [s.current[1] EXCEPT !.endLine = Len(lines)])
          ELSE s.sections))

\* array.filter over the kept positions
FilterSeq(s, keep) ==
  LET f[n \in 0..Len(s)] ==
        IF n = 0 THEN <<>>
        ELSE IF n \in keep THEN Append(f[n - 1], s[n]) ELSE f[n - 1]
  IN  f[Len(s)]

\* allSections.filter((s) => !s.pinned)
Draggable(sections) ==
  With(sections, LAMBDA ss : FilterSeq(ss, {i \in 1..Len(ss) : ~ss[i].pinned}))

\* sections.find((s) => s.pinned) : <<>> or <<section>>
FindPinned(sections) ==
  With(sections, LAMBDA ss :
    LET ps == {i \in 1..Len(ss) : ss[i].pinned}
    IN  IF ps = {} THEN <<>>
        ELSE <<ss[CHOOSE i \in ps : \A j \in ps : i <= j]>>)

\* for (j = 0; ...) if (m && m[1].trim() === pinnedName) { ...; break }
\* the first line with a pinned heading, lines.length if there is none
RECURSIVE PinnedFrom(_, _)
PinnedFrom(lines, j) ==
  IF j >= Len(lines) THEN Len(lines)
  ELSE IF IsPinnedHeading(lines[j + 1]) THEN j
  ELSE PinnedFrom(lines, j + 1)

PinnedStart(lines) == PinnedFrom(lines, 0)

\* "Back up past --- HR and blank lines before pinned section"
EffectiveEnd(lines) ==
  With(PinnedStart(lines), LAMBDA e0 :
  With(IF e0 > 0 /\ IsBlank(lines[e0]) THEN e0 - 1 ELSE e0, LAMBDA e1 :
  With(IF e1 > 0 /\ IsHR(lines[e1]) THEN e1 - 1 ELSE e1, LAMBDA e2 :
    IF e2 > 0 /\ IsBlank(lines[e2]) THEN e2 - 1 ELSE e2)))

\* lastQuoteLine.match(/\[\[([^\]|]+)\|\*]]/) : <<>> or <<name>>, leftmost match
SourceMatch(s) ==
  LET ms == {w \in (1..Len(s)) \X (1..Len(s)) :
               /\ w[1] + 3 <= w[2]
               /\ w[2] + 3 <= Len(s)
               /\ SubSeq(s, w[1], w[1] + 1) = "[["
               /\ SubSeq(s, w[2], w[2] + 3) = "|*]]"
               /\ \A k \in (w[1] + 2)..(w[2] - 1) : Char(s, k) \notin {"]", "|"}}
  IN  With(ms, LAMBDA found :
        IF found = {} THEN <<>>
        ELSE With(CHOOSE w \in found : \A v \in found : w[1] <= v[1], LAMBDA m :
               <<SubSeq(s, m[1] + 2, m[2] - 1)>>))

\* while (i < effectiveEnd && (lines[i].startsWith("> ") || lines[i] === ">")) i++
RECURSIVE QuoteEnd(_, _, _)
QuoteEnd(lines, effectiveEnd, i) ==
  IF i < effectiveEnd /\ IsQuoteLine(lines[i + 1])
  THEN QuoteEnd(lines, effectiveEnd, i + 1)
  ELSE i

\* the while loop that collects a prose block
RECURSIVE ProseEnd(_, _, _)
ProseEnd(lines, effectiveEnd, i) ==
  IF /\ i < effectiveEnd
     /\ ~IsBlank(lines[i + 1])
     /\ ~HeadingMatch(lines[i + 1])
     /\ ~IsQuoteLine(lines[i + 1])
     /\ ~IsHR(lines[i + 1])
  THEN ProseEnd(lines, effectiveEnd, i + 1)
  ELSE i

\* the blocks parseBlocks pushes from line i on
BlocksFrom(lines, effectiveEnd) ==
  LET scan[i \in 0..Len(lines)] ==
        IF i >= effectiveEnd THEN <<>>
        ELSE IF IsBlank(lines[i + 1]) THEN scan[i + 1]
        ELSE IF IsHR(lines[i + 1]) THEN scan[i + 1]
        ELSE IF HeadingMatch(lines[i + 1])
        THEN <<[type |-> "heading", startLine |-> i, endLine |-> i + 1,
                headingText |-> HeadingText(lines[i + 1]), source |-> <<>>]>>
               \o scan[i + 1]
        ELSE IF IsQuoteLine(lines[i + 1])
        THEN With(QuoteEnd(lines, effectiveEnd, i), LAMBDA e :
               <<[type |-> "blockquote", startLine |-> i, endLine |-> e,
                  headingText |-> "", source |-> SourceMatch(lines[e])]>>
                 \o scan[e])
        ELSE With(ProseEnd(lines, effectiveEnd, i), LAMBDA e :
               <<[type |-> "prose", startLine |-> i, endLine |-> e,
                  headingText |-> "", source |-> <<>>]>>
                 \o scan[e])
  IN  scan[0]

\* parseBlocks that does not stop at the pinned section
parseBlocksPastPinned(content) ==
  With(content, LAMBDA lines : BlocksFrom(lines, Len(lines)))

parseBlocks(content) ==
  With(content, LAMBDA lines :
    With(EffectiveEnd(lines), LAMBDA effectiveEnd : BlocksFrom(lines, effectiveEnd)))

\* groupBlocks that counts a block before the first heading as no orphan
groupBlocksNoOrphans(blocks) ==
  With(blocks, LAMBDA bs :
    LET scan[i \in 0..Len(bs)] ==
          IF i = 0 THEN [groups |-> <<>>, current |-> <<>>]
          ELSE With(scan[i - 1], LAMBDA s :
                 IF bs[i].type = "heading"
                 THEN [groups |-> IF s.current # <<>>
                                  THEN Append(s.groups, s.current[1])
                                  ELSE s.groups,
                       current |-> <<[heading |-> bs[i], children |-> <<>>,
                                      headingIndex |-> i - 1,
                                      childIndices |-> <<>>]>>]
                 ELSE IF s.current # <<>>
                 THEN [s EXCEPT
                         !.current = <<[s.current[1] EXCEPT
                                          !.children = Append(@, bs[i]),
                                          !.childIndices = Append(@, i - 1)]>>]
                 ELSE s)
    IN  With(scan[Len(bs)], LAMBDA s :
          [orphans |-> <<>>,
           groups |-> IF s.current # <<>> THEN Append(s.groups, s.current[1])
                      ELSE s.groups]))

\* the loop of groupBlocks: orphans, the groups closed before block i, and the
\* open group (currentGroup) as <<>> or <<group>>; indices count from 0
groupBlocks(blocks) ==
  With(blocks, LAMBDA bs :
    LET scan[i \in 0..Len(bs)] ==
          IF i = 0 THEN [orphans |-> <<>>, groups |-> <<>>, current |-> <<>>]
          ELSE With(scan[i - 1], LAMBDA s :
                 IF bs[i].type = "heading"
                 THEN [s EXCEPT
                         !.groups = IF s.current # <<>>
                                    THEN Append(s.groups, s.current[1])
                                    ELSE s.groups,
                         !.current = <<[heading |-> bs[i], children |-> <<>>,
                                        headingIndex |-> i - 1,
                                        childIndices |-> <<>>]>>]
                 ELSE IF s.current # <<>>
                 THEN [s EXCEPT
                         !.current = <<[s.current[1] EXCEPT
                                          !.children = Append(@, bs[i]),
                                          !.childIndices = Append(@, i - 1)]>>]
                 ELSE [s EXCEPT !.orphans = Append(@, i - 1)])
    IN  With(scan[Len(bs)], LAMBDA s :
          [orphans |-> s.orphans,
           groups |-> IF s.current # <<>> THEN Append(s.groups, s.current[1])
                      ELSE s.groups]))

---------------------------------------------------------------------------
(* Outcome of one call of an operation *)

\* the call returns without calling setFileContent
Return(content) ==
  [committed |-> FALSE, threw |-> FALSE, content |-> content, notice |-> ""]

\* the call returns after new Notice(msg), without calling setFileContent
ReturnNotice(content, msg) ==
  [committed |-> FALSE, threw |-> FALSE, content |-> content, notice |-> msg]

\* the call reads a property of undefined (array[index] out of range), which
\* raises a TypeError before setFileContent is reached
Throw(content) ==
  [committed |-> FALSE, threw |-> TRUE, content |-> content, notice |-> ""]

\* await this.setFileContent(projectFile, newContent)
Commit(newContent) ==
  [committed |-> TRUE, threw |-> FALSE, content |-> newContent, notice |-> ""]

\* array[i] is undefined
Undefined(arr, i) == i < 0 \/ i >= Len(arr)

---------------------------------------------------------------------------
(* Structural mutator: reorder *)

\* while (insertLine > 0 && afterLines[insertLine - 1].trim() === "") insertLine--
RECURSIVE BackBlank(_, _)
BackBlank(afterLines, insertLine) ==
  IF insertLine > 0 /\ IsBlank(afterLines[insertLine])
  THEN BackBlank(afterLines, insertLine - 1)
  ELSE insertLine

\* the end insert placed at the pinned heading itself, below the rule
EndInsertLineAtPinned(afterLines) == PinnedStart(afterLines)

\* "Insert at end (before pinned section)"
EndInsertLine(afterLines) ==
  With(PinnedStart(afterLines), LAMBDA j :
    IF j = Len(afterLines) THEN Len(afterLines)
    ELSE With(BackBlank(afterLines, j), LAMBDA i1 :
           BackBlank(afterLines,
                     IF i1 > 0 /\ IsHR(afterLines[i1]) THEN i1 - 1 ELSE i1)))

\* Rejoin with the rest taken from one line too far: lines.slice(insertLine + 1)
RejoinSkippingLine(lines, insertLine, payload) ==
  With(PopBlank(payload), LAMBDA unit :
  With(PopBlank(Slice(lines, 0, insertLine)), LAMBDA before :
  With(ShiftBlank(Slice(lines, insertLine + 1, Len(lines))), LAMBDA after :
    Cat((IF Len(before) > 0 THEN before \o <<"">> ELSE <<>>)
          \o Join(unit)
          \o (IF Len(after) > 0 THEN <<"">> \o after ELSE <<>>),
        <<"", "">>))))

\* parts.join("\n\n") + "\n" of before / payload / after around insertLine
Rejoin(lines, insertLine, payload) ==
  With(PopBlank(payload), LAMBDA unit :
  With(PopBlank(Slice(lines, 0, insertLine)), LAMBDA before :
  With(ShiftBlank(Slice(lines, insertLine, Len(lines))), LAMBDA after :
    Cat((IF Len(before) > 0 THEN before \o <<"">> ELSE <<>>)
          \o Join(unit)
          \o (IF Len(after) > 0 THEN <<"">> \o after ELSE <<>>),
        <<"", "">>))))

\* SectionRejoin with the section pushed after the rest of the text
SectionRejoinAtEnd(lines, insertLine, sectionLines) ==
  With(PopBlank(sectionLines), LAMBDA unit :
  With(PopBlank(Slice(lines, 0, insertLine)), LAMBDA before :
  With(Slice(lines, insertLine, Len(lines)), LAMBDA after :
    Cat((IF Len(before) > 0 THEN before \o <<"">> ELSE <<>>)
          \o (IF Len(after) > 0 THEN Join(ShiftBlank(after)) \o <<"">> ELSE <<>>)
          \o Join(unit),
        <<"", "">>))))

\* the same reassembly as written in moveSection
SectionRejoin(lines, insertLine, sectionLines) ==
  With(PopBlank(sectionLines), LAMBDA unit :
  With(PopBlank(Slice(lines, 0, insertLine)), LAMBDA before :
  With(Slice(lines, insertLine, Len(lines)), LAMBDA after :
    Cat((IF Len(before) > 0 THEN before \o <<"">> ELSE <<>>)
          \o Join(unit)
          \o (IF Len(after) > 0 THEN <<"">> \o Join(ShiftBlank(after)) ELSE <<>>),
        <<"", "">>))))

moveSection(content, fromIndex, toIndex) ==
  IF fromIndex = toIndex THEN Return(content)
  ELSE With(Draggable(parseSections(content)), LAMBDA draggable :
    IF fromIndex >= Len(draggable) \/ toIndex >= Len(draggable) THEN Return(content)
    ELSE IF Undefined(draggable, fromIndex) THEN Throw(content)
    ELSE With(draggable[fromIndex + 1], LAMBDA section :
         With(Slice(content, section.startLine, section.endLine), LAMBDA sectionLines :
         With(Splice(content, section.startLine, section.endLine - section.startLine),
              LAMBDA lines :
         With(Draggable(parseSections(lines)), LAMBDA remainingSections :
           IF toIndex >= Len(remainingSections)
           THEN With(FindPinned(parseSections(lines)), LAMBDA pinned :
                  Commit(SectionRejoin(lines,
                           IF pinned # <<>> THEN pinned[1].startLine ELSE Len(lines),
                           sectionLines)))
           ELSE IF Undefined(remainingSections, toIndex) THEN Throw(content)
           ELSE Commit(SectionRejoin(lines, remainingSections[toIndex + 1].startLine,
                                     sectionLines)))))))

\* moveBlock with the target resolved against the blocks before the removal
moveBlockOriginalTarget(content, fromIndex, toIndex) ==
  IF fromIndex = toIndex THEN Return(content)
  ELSE With(parseBlocks(content), LAMBDA blocks :
    IF fromIndex >= Len(blocks) \/ toIndex >= Len(blocks) THEN Return(content)
    ELSE IF Undefined(blocks, fromIndex) THEN Throw(content)
    ELSE With(blocks[fromIndex + 1], LAMBDA block :
         With(Slice(content, block.startLine, block.endLine), LAMBDA blockLines :
         With(Splice(content, block.startLine, block.endLine - block.startLine),
              LAMBDA lines :
           IF Undefined(blocks, toIndex) THEN Throw(content)
           ELSE Commit(Rejoin(lines, Min(blocks[toIndex + 1].startLine, Len(lines)),
                              blockLines))))))

moveBlock(content, fromIndex, toIndex) ==
  IF fromIndex = toIndex THEN Return(content)
  ELSE With(parseBlocks(content), LAMBDA blocks :
    IF fromIndex >= Len(blocks) \/ toIndex >= Len(blocks) THEN Return(content)
    ELSE IF Undefined(blocks, fromIndex) THEN Throw(content)
    ELSE With(blocks[fromIndex + 1], LAMBDA block :
         With(Slice(content, block.startLine, block.endLine), LAMBDA blockLines :
         With(Splice(content, block.startLine, block.endLine - block.startLine),
              LAMBDA lines :
         With(parseBlocks(lines), LAMBDA remainingBlocks :
           IF toIndex >= Len(remainingBlocks)
           THEN Commit(Rejoin(lines, EndInsertLine(lines), blockLines))
           ELSE IF Undefined(remainingBlocks, toIndex) THEN Throw(content)
           ELSE Commit(Rejoin(lines, remainingBlocks[toIndex + 1].startLine,
                              blockLines)))))))

\* includes that compares the first index only
SeqIncludesFirst(s, x) == Len(s) > 0 /\ s[1] = x

\* fromIndices.includes(toIndex)
SeqIncludes(s, x) == \E i \in 1..Len(s) : s[i] = x

moveBlockGroup(content, fromIndices, toIndex) ==
  IF Len(fromIndices) = 0 THEN Return(content)
  ELSE IF SeqIncludes(fromIndices, toIndex) THEN Return(content)
  ELSE With(parseBlocks(content), LAMBDA blocks :
    IF Undefined(blocks, fromIndices[1]) \/ Undefined(blocks, fromIndices[Len(fromIndices)])
    THEN Throw(content)
    ELSE With(blocks[fromIndices[1] + 1], LAMBDA firstBlock :
         With(blocks[fromIndices[Len(fromIndices)] + 1], LAMBDA lastBlock :
         With(Slice(content, firstBlock.startLine, lastBlock.endLine), LAMBDA groupLines :
         With(Splice(content, firstBlock.startLine,
                     lastBlock.endLine - firstBlock.startLine), LAMBDA lines :
         With(parseBlocks(lines), LAMBDA remainingBlocks :
           IF toIndex >= Len(remainingBlocks)
           THEN Commit(Rejoin(lines, EndInsertLine(lines), groupLines))
           ELSE IF Undefined(remainingBlocks, toIndex) THEN Throw(content)
           ELSE Commit(Rejoin(lines, remainingBlocks[toIndex + 1].startLine,
                              groupLines))))))))

---------------------------------------------------------------------------
(* Structural mutator: remove *)

\* lines.join("\n").replace(/\n{3,}/g, "\n\n").trimEnd() + "\n"
Normalize(lines) == Cat(TrimEnd(CollapseNewlines(Join(lines))), <<"", "">>)

\* removeSection splicing from the line after the heading
removeSectionBody(content, sectionIndex) ==
  With(Draggable(parseSections(content)), LAMBDA draggable :
    IF sectionIndex >= Len(draggable) THEN Return(content)
    ELSE IF Undefined(draggable, sectionIndex) THEN Throw(content)
    ELSE With(draggable[sectionIndex + 1], LAMBDA section :
           Commit(Normalize(Splice(content, section.startLine + 1,
                                   section.endLine - section.startLine - 1)))))

removeSection(content, sectionIndex) ==
  With(Draggable(parseSections(content)), LAMBDA draggable :
    IF sectionIndex >= Len(draggable) THEN Return(content)
    ELSE IF Undefined(draggable, sectionIndex) THEN Throw(content)
    ELSE With(draggable[sectionIndex + 1], LAMBDA section :
           Commit(Normalize(Splice(content, section.startLine,
                                   section.endLine - section.startLine)))))

removeBlock(content, blockIndex) ==
  With(parseBlocks(content), LAMBDA blocks :
    IF blockIndex >= Len(blocks) THEN Return(content)
    ELSE IF Undefined(blocks, blockIndex) THEN Throw(content)
    ELSE With(blocks[blockIndex + 1], LAMBDA block :
           Commit(Normalize(Splice(content, block.startLine,
                                   block.endLine - block.startLine)))))

---------------------------------------------------------------------------
(* Structural mutator: insert *)

\* lines.map((l) => `> ${l}`)
QuoteLines(lines) == With(lines, LAMBDA a : [i \in 1..Len(a) |-> "> " \o a[i]])

\* `[[${name}|*]]`
Sigil(name) == "[[" \o name \o "|*]]"

\* `- [[${name}]]`
BackRef(name) == "- [[" \o name \o "]]"

\* NewPinnedSection with a level-one heading
NewPinnedSectionH1(name) ==
  <<"", "", "---", "", "# " \o pinnedSectionName, "", BackRef(name), "">>

\* `\n\n---\n\n## ${pinnedName}\n\n` + `- [[${name}]]` + "\n"
NewPinnedSection(name) ==
  <<"", "", "---", "", "## " \o pinnedSectionName, "", BackRef(name), "">>

\* sourceContent.replace(/^---\n[\s\S]*?\n---\n?/, "") : the fence closes at
\* the first later "\n---", which must leave at least "---\n" before it
StripFrontmatter(text) ==
  With(text, LAMBDA t :
    With({j \in 3..Len(t) : StartsWith(t[j], "---")}, LAMBDA closes :
      IF t[1] # "---" \/ closes = {} THEN t
      ELSE With(CHOOSE c \in closes : \A d \in closes : c <= d, LAMBDA j :
             IF t[j] = "---" /\ j < Len(t) THEN SubSeq(t, j + 1, Len(t))
             ELSE <<SubSeq(t[j], 4, Len(t[j]))>> \o SubSeq(t, j + 1, Len(t)))))

\* sourceContent.replace(new RegExp(`^#\\s+${basename}\\s*\n?`), "").trim()
\* The whitespace and the newline matched after the name are removed by the
\* trim as well; \s+ may run over line ends.
StripTitle(text, basename) ==
  With(text, LAMBDA t :
  With(TrimStartLine(SubSeq(t[1], 2, Len(t[1]))), LAMBDA rest :
  With({j \in 2..Len(t) : ~IsBlank(t[j])}, LAMBDA nexts :
    IF /\ StartsWith(t[1], "#")
       /\ Len(rest) < Len(t[1]) - 1
       /\ StartsWith(rest, basename)
    THEN Trim(<<SubSeq(rest, Len(basename) + 1, Len(rest))>> \o SubSeq(t, 2, Len(t)))
    ELSE IF /\ StartsWith(t[1], "#")
            /\ rest = ""
            /\ nexts # {}
    THEN With(CHOOSE c \in nexts : \A d \in nexts : c <= d, LAMBDA j :
         With(TrimStartLine(t[j]), LAMBDA r :
           IF StartsWith(r, basename)
           THEN Trim(<<SubSeq(r, Len(basename) + 1, Len(r))>> \o SubSeq(t, j + 1, Len(t)))
           ELSE Trim(t)))
    ELSE Trim(t))))

\* sourceContent.replace(/\n## Reference[\s\S]*$/, "").trim()
StripReference(text) ==
  With(text, LAMBDA t :
    With({j \in 2..Len(t) : StartsWith(t[j], "## Reference")}, LAMBDA refs :
      IF refs = {} THEN Trim(t)
      ELSE Trim(SubSeq(t, 1, (CHOOSE c \in refs : \A d \in refs : c <= d) - 1))))

\* `${quoted}  [[${name}|*]]\n`
AttributedBlock(quoted, name) ==
  Cat(quoted, <<"  " \o Sigil(name), "">>)

\* the branch on sourcesSection shared by the three pull-in operations;
\* addNoteToProject adds the back-reference without looking for it (dedupe FALSE)
InsertBeforePinned(content, newBlock, name, dedupe) ==
  With(FindPinned(parseSections(content)), LAMBDA sourcesSection :
    IF sourcesSection # <<>>
    THEN With(Join(Slice(content, 0, sourcesSection[1].startLine)), LAMBDA beforeSources :
         With(Join(Slice(content, sourcesSection[1].startLine, Len(content))),
              LAMBDA sourcesText :
         With(IF dedupe /\ Includes(sourcesText, "[[" \o name \o "]]")
              THEN sourcesText
              ELSE Cat(TrimEnd(sourcesText), <<"", BackRef(name)>>),
              LAMBDA updatedSources :
           CatAll(<<TrimEnd(beforeSources), <<"", "", "">>, newBlock, <<"", "">>,
                    updatedSources, <<"", "">> >>))))
    ELSE CatAll(<<TrimEnd(content), <<"", "", "">>, newBlock, NewPinnedSection(name)>>))

\* raw is the text of the source note, basename its name
addNoteToProject(content, basename, raw) ==
  With(StripReference(StripTitle(StripFrontmatter(raw), basename)), LAMBDA sourceContent :
    Commit(InsertBeforePinned(content,
                              AttributedBlock(QuoteLines(sourceContent), basename),
                              basename, FALSE)))

addSelectionToEssay(content, selection, sourceName) ==
  Commit(InsertBeforePinned(content,
                            AttributedBlock(QuoteLines(Trim(selection)), sourceName),
                            sourceName, TRUE))

\* U+201C and U+201D, written in ASCII
LDQUO == "{"
RDQUO == "}"

quoteSelectionFromSource(content, selection, sourceName) ==
  With(Trim(selection), LAMBDA qLines :
  With(IF Len(qLines) = 1 THEN <<"> " \o LDQUO \o qLines[1] \o RDQUO>>
       ELSE [i \in 1..Len(qLines) |->
               IF i = 1 THEN "> " \o LDQUO \o qLines[i]
               ELSE IF i = Len(qLines) THEN "> " \o qLines[i] \o RDQUO
               ELSE "> " \o qLines[i]],
       LAMBDA blockquote :
    Commit(InsertBeforePinned(content, AttributedBlock(blockquote, sourceName),
                              sourceName, TRUE))))

\* addBlankSection without the branch on the pinned section
addBlankSectionAtEnd(content) ==
  Commit(CatAll(<<TrimEnd(content), <<"", "", "">>, <<"## New Section", "", "">> >>))

addBlankSection(content) ==
  With(FindPinned(parseSections(content)), LAMBDA sourcesSection :
    IF sourcesSection # <<>>
    THEN Commit(CatAll(<<TrimEnd(Join(Slice(content, 0, sourcesSection[1].startLine))),
                         <<"", "", "">>,
                         <<"## New Section", "", "">>,
                         <<"", "">>,
                         Join(Slice(content, sourcesSection[1].startLine, Len(content)))>>))
    ELSE Commit(CatAll(<<TrimEnd(content), <<"", "", "">>, <<"## New Section", "", "">> >>)))

---------------------------------------------------------------------------
(* Structural mutator: extract (the part before the destination prompt) *)

\* extractSection that opens the modal for any section in range
extractSectionAnyBody(content, sectionIndex) ==
  With(Draggable(parseSections(content)), LAMBDA draggable :
    IF sectionIndex >= Len(draggable) THEN Return(content)
    ELSE IF Undefined(draggable, sectionIndex) THEN Throw(content)
    ELSE ReturnNotice(content, "ExtractModal"))

extractSection(content, sectionIndex) ==
  With(Draggable(parseSections(content)), LAMBDA draggable :
    IF sectionIndex >= Len(draggable) THEN Return(content)
    ELSE IF Undefined(draggable, sectionIndex) THEN Throw(content)
    ELSE With(draggable[sectionIndex + 1], LAMBDA section :
         With(PopBlank(ShiftBlank(Slice(content, section.startLine + 1, section.endLine))),
              LAMBDA bodyLines :
           IF Len(bodyLines) = 0
           THEN ReturnNotice(content, "Cannot extract an empty section")
           ELSE ReturnNotice(content, "ExtractModal"))))

\* the characters of /[/\\:*?"<>|]/
ForbiddenChars == {"/", "\\", ":", "*", "?", "\"", "<", ">", "|"}

\* name.replace(/[/\\:*?"<>|]/g, "").trim()
sanitizeFilename(name) ==
  LET kept[n \in 0..Len(name)] ==
        IF n = 0 THEN ""
        ELSE IF Char(name, n) \in ForbiddenChars THEN kept[n - 1]
        ELSE kept[n - 1] \o Char(name, n)
  IN  TrimLine(kept[Len(name)])

\* folder ? `${folder}/${safeName}.md` : `${safeName}.md`
TargetPath(folder, safeName) ==
  IF folder # "" THEN folder \o "/" \o safeName \o ".md" ELSE safeName \o ".md"

\* this.app.vault.getAbstractFileByPath(targetPath) is not null
Exists(files, path) == path \in DOMAIN files

\* await this.app.vault.create(targetPath, text)
Create(files, path, text) ==
  [p \in DOMAIN files \cup {path} |-> IF p = path THEN text ELSE files[p]]

\* how a modal callback ends: the outcome for the project file and the vault
\* it leaves
Outcome(result, files, msg) ==
  [committed |-> result.committed, threw |-> result.threw,
   content |-> result.content, notice |-> msg, vault |-> files]

\* AddBackReference that replaces the last line of the pinned section
AddBackReferenceOverLast(content, safeName) ==
  With(FindPinned(parseSections(content)), LAMBDA sourcesSection :
    IF sourcesSection # <<>>
    THEN With(sourcesSection[1], LAMBDA s :
           IF ~Includes(Join(Slice(content, s.startLine, s.endLine)),
                        "[[" \o safeName \o "]]")
           THEN Commit(Join(SpliceIn(Slice(content, 0, s.endLine - 1), s.endLine - 1,
                                 BackRef(safeName))))
           ELSE Return(content))
    ELSE Commit(CatAll(<<TrimEnd(content), NewPinnedSection(safeName)>>)))

\* the back-reference written by both callbacks: a line spliced in at
\* sourcesSection.endLine unless the pinned section already includes the link,
\* or a new pinned section after content.trimEnd()
AddBackReference(content, safeName) ==
  With(FindPinned(parseSections(content)), LAMBDA sourcesSection :
    IF sourcesSection # <<>>
    THEN With(sourcesSection[1], LAMBDA s :
           IF ~Includes(Join(Slice(content, s.startLine, s.endLine)),
                        "[[" \o safeName \o "]]")
           THEN Commit(Join(SpliceIn(content, s.endLine, BackRef(safeName))))
           ELSE Return(content))
    ELSE Commit(CatAll(<<TrimEnd(content), NewPinnedSection(safeName)>>)))

\* extractSectionSubmit that creates the file before it looks for it
extractSectionSubmitWriteFirst(content, sectionIndex, folder, files) ==
  With(Draggable(parseSections(content))[sectionIndex + 1], LAMBDA section :
  With(PopBlank(ShiftBlank(Slice(content, section.startLine + 1, section.endLine))),
       LAMBDA bodyLines :
  With(sanitizeFilename(section.heading), LAMBDA safeName :
  With(TargetPath(folder, safeName), LAMBDA targetPath :
    Outcome(AddBackReference(content, safeName),
            Create(files, targetPath, Cat(Join(bodyLines), <<"", "">>)),
            "Extracted")))))

\* the callback extractSection gives to ExtractModal, over the content, the
\* section and the body lines the call has captured
extractSectionSubmit(content, sectionIndex, folder, files) ==
  With(Draggable(parseSections(content))[sectionIndex + 1], LAMBDA section :
  With(PopBlank(ShiftBlank(Slice(content, section.startLine + 1, section.endLine))),
       LAMBDA bodyLines :
  With(sanitizeFilename(section.heading), LAMBDA safeName :
  With(TargetPath(folder, safeName), LAMBDA targetPath :
    IF Exists(files, targetPath)
    THEN Outcome(Return(content), files, "already exists")
    ELSE Outcome(AddBackReference(content, safeName),
                 Create(files, targetPath, Cat(Join(bodyLines), <<"", "">>)),
                 "Extracted")))))

\* the callback extractSelectionToNote gives to ExtractSelectionModal; content
\* is the project file as read after the note is created
extractSelectionSubmit(selection, noteName, folder, content, files) ==
  With(sanitizeFilename(noteName), LAMBDA safeName :
    IF safeName = ""
    THEN Outcome(Return(content), files, "Note name cannot be empty")
    ELSE With(TargetPath(folder, safeName), LAMBDA targetPath :
      IF Exists(files, targetPath)
      THEN Outcome(Return(content), files, "already exists")
      ELSE Outcome(AddBackReference(content, safeName),
                   Create(files, targetPath, Cat(Trim(selection), <<"", "">>)),
                   "Created")))

---------------------------------------------------------------------------
(* Clean export *)

\* lines.join("\n") as one string, lines not empty
Flatten(lines) ==
  LET f[n \in 1..Len(lines)] ==
        IF n = 1 THEN lines[1] ELSE f[n - 1] \o "\n" \o lines[n]
  IN  f[Len(lines)]

\* s.split("\n")
SplitLines(s) ==
  With({0} \cup {i \in 1..Len(s) : Char(s, i) = "\n"} \cup {Len(s) + 1}, LAMBDA cuts :
    [k \in 1..(Cardinality(cuts) - 1) |->
       With(CHOOSE c \in cuts : Cardinality({d \in cuts : d < c}) = k - 1, LAMBDA a :
         With(CHOOSE c \in cuts : Cardinality({d \in cuts : d < c}) = k, LAMBDA b :
           SubSeq(s, a + 1, b - 1)))])

\* the last position of the longest run of characters outside stop that
\* starts at position i of s (i - 1 if the run is empty): [^...]+ is greedy
RECURSIVE RunOutside(_, _, _)
RunOutside(s, i, stop) ==
  IF i <= Len(s) /\ Char(s, i) \notin stop THEN RunOutside(s, i + 1, stop) ELSE i - 1

\* s has the string p at position i
HasAt(s, i, p) == i + Len(p) - 1 <= Len(s) /\ SubSeq(s, i, i + Len(p) - 1) = p

\* a match of /\[\[[^\]|]+\|\*]]/ at position i: <<>> or <<end, replacement>>
SigilMatch(s, i) ==
  IF ~HasAt(s, i, "[[") THEN <<>>
  ELSE With(RunOutside(s, i + 2, {"]", "|"}), LAMBDA r :
         IF r >= i + 2 /\ HasAt(s, r + 1, "|*]]") THEN <<r + 4, "">> ELSE <<>>)

\* a match of /\[\[([^\]|]+)\|([^\]]+)]]/ at position i, replaced by "$2"
AliasMatch(s, i) ==
  IF ~HasAt(s, i, "[[") THEN <<>>
  ELSE With(RunOutside(s, i + 2, {"]", "|"}), LAMBDA r :
         IF r >= i + 2 /\ HasAt(s, r + 1, "|")
         THEN With(RunOutside(s, r + 2, {"]"}), LAMBDA e :
                IF e >= r + 2 /\ HasAt(s, e + 1, "]]")
                THEN <<e + 2, SubSeq(s, r + 2, e)>> ELSE <<>>)
         ELSE <<>>)

\* a match of /\[\[([^\]]+)]]/ at position i, replaced by "$1"
LinkMatch(s, i) ==
  IF ~HasAt(s, i, "[[") THEN <<>>
  ELSE With(RunOutside(s, i + 2, {"]"}), LAMBDA e :
         IF e >= i + 2 /\ HasAt(s, e + 1, "]]")
         THEN <<e + 2, SubSeq(s, i + 2, e)>> ELSE <<>>)

\* s.replace(/.../g, ...): the matches are taken from left to right, each
\* search going on after the last match
ReplaceAll(s, Match(_, _)) ==
  With({i \in 1..Len(s) : Match(s, i) # <<>>}, LAMBDA starts :
    LET from[i \in 1..(Len(s) + 1)] ==
          With({j \in starts : j >= i}, LAMBDA later :
            IF later = {} THEN SubSeq(s, i, Len(s))
            ELSE With(CHOOSE j \in later : \A k \in later : j <= k, LAMBDA j :
                   With(Match(s, j), LAMBDA m :
                     SubSeq(s, i, j - 1) \o m[2] \o from[m[1] + 1])))
    IN  from[1])

\* StripLinks without the replacement of the sigil links
StripLinksKeepSigil(s) ==
  With(ReplaceAll(s, AliasMatch), LAMBDA s2 : ReplaceAll(s2, LinkMatch))

\* the three replacements of copyCleanExport on the joined sections
StripLinks(s) ==
  With(ReplaceAll(s, SigilMatch), LAMBDA s1 :
    With(ReplaceAll(s1, AliasMatch), LAMBDA s2 : ReplaceAll(s2, LinkMatch)))

\* parts.join("\n\n") of the draggable sections, each without its heading
\* lines unless includeHeadings
ExportParts(content, draggable, includeHeadings) ==
  LET part(k) ==
        With(Slice(content, draggable[k].startLine, draggable[k].endLine), LAMBDA ls :
          Join(IF includeHeadings THEN ls
               ELSE FilterSeq(ls, {i \in 1..Len(ls) : ~HeadingMatch(ls[i])})))
      f[n \in 1..Len(draggable)] ==
        IF n = 1 THEN part(1) ELSE f[n - 1] \o <<"">> \o part(n)
  IN  f[Len(draggable)]

\* copyCleanExport: the text written to the clipboard, <<>> if nothing is
\* written ("Nothing to export")
copyCleanExport(content, includeHeadings) ==
  With(Draggable(parseSections(content)), LAMBDA draggable :
    IF Len(draggable) = 0 THEN <<>>
    ELSE Trim(CollapseNewlines(SplitLines(StripLinks(
           Flatten(ExportParts(content, draggable, includeHeadings)))))))

---------------------------------------------------------------------------
(* Outline: drag and drop and the move buttons of a heading group card *)

\* the drop handler of the card of block index, a collapsed heading group
\* being dragged (draggedGroupIndices = fromIndices)
dropGroup(content, fromIndices, index, insertBefore) ==
  IF SeqIncludes(fromIndices, index) THEN Return(content)
  ELSE With(IF fromIndices[1] < index THEN index - (Len(fromIndices) - 1) ELSE index,
            LAMBDA toIdx :
         moveBlockGroup(content, fromIndices,
                        IF insertBefore THEN toIdx ELSE toIdx + 1))

\* the drop handler of the card of block index, one block being dragged
\* (draggedIndex = fromIdx)
dropBlock(content, fromIdx, index, insertBefore) ==
  IF fromIdx = index THEN Return(content)
  ELSE With(IF fromIdx < index THEN index - 1 ELSE index, LAMBDA toIdx :
         moveBlock(content, fromIdx, IF insertBefore THEN toIdx ELSE toIdx + 1))

\* [group.headingIndex, ...group.childIndices]
AllGroupIndices(group) == <<group.headingIndex>> \o group.childIndices

\* the click handler of the up arrow of a heading group card
moveGroupUp(content, group, isCollapsed) ==
  With(AllGroupIndices(group), LAMBDA allGroupIndices :
    IF group.headingIndex = 0 THEN Return(content)
    ELSE IF isCollapsed /\ Len(allGroupIndices) > 1
    THEN moveBlockGroup(content, allGroupIndices, group.headingIndex - 1)
    ELSE moveBlock(content, group.headingIndex, group.headingIndex - 1))

\* the click handler of the down arrow of a heading group card
moveGroupDown(content, group, isCollapsed) ==
  With(AllGroupIndices(group), LAMBDA allGroupIndices :
  With(allGroupIndices[Len(allGroupIndices)], LAMBDA lastIdx :
  With(Len(parseBlocks(content)), LAMBDA blocksLength :
    IF lastIdx >= blocksLength - 1 THEN Return(content)
    ELSE IF isCollapsed /\ Len(allGroupIndices) > 1
    THEN moveBlockGroup(content, allGroupIndices, lastIdx + 1)
    ELSE IF group.headingIndex < blocksLength - 1
    THEN moveBlock(content, group.headingIndex, group.headingIndex + 1)
    ELSE Return(content))))

---------------------------------------------------------------------------
(* Source queue: project.sources in the plugin data *)

\* the project trackFileAsProject makes for the project file
NewProject == [filePath |-> "p.md", sources |-> <<>>]

\* project.sources.some((s) => s.notePath === path)
HasSource(sources, path) == \E i \in 1..Len(sources) : sources[i].notePath = path

\* addSourceToQueue that looks for the path in the last entry only
addSourceToQueueCheckLast(proj, path) ==
  IF Len(proj.sources) > 0 /\ proj.sources[Len(proj.sources)].notePath = path
  THEN [project |-> proj, notice |-> "is already in sources", saves |-> FALSE]
  ELSE IF path = proj.filePath
  THEN [project |-> proj, notice |-> "Can't add the project file as a source",
        saves |-> FALSE]
  ELSE [project |-> [proj EXCEPT !.sources =
                       Append(@, [notePath |-> path, status |-> "unread"])],
        notice |-> "", saves |-> TRUE]

\* addSourceToQueue up to its await of savePluginData
addSourceToQueue(proj, path) ==
  IF HasSource(proj.sources, path)
  THEN [project |-> proj, notice |-> "is already in sources", saves |-> FALSE]
  ELSE IF path = proj.filePath
  THEN [project |-> proj, notice |-> "Can't add the project file as a source",
        saves |-> FALSE]
  ELSE [project |-> [proj EXCEPT !.sources =
                       Append(@, [notePath |-> path, status |-> "unread"])],
        notice |-> "", saves |-> TRUE]

\* removeSourceFromQueue up to its await of savePluginData
removeSourceFromQueue(proj, sourceIndex) ==
  IF sourceIndex >= 0 /\ sourceIndex < Len(proj.sources)
  THEN [project |-> [proj EXCEPT !.sources = Splice(@, sourceIndex, 1)],
        notice |-> "", saves |-> TRUE]
  ELSE [project |-> proj, notice |-> "", saves |-> FALSE]

\* markSourceStatus up to its await of savePluginData
markSourceStatus(proj, sourceIndex, status) ==
  IF sourceIndex >= 0 /\ sourceIndex < Len(proj.sources)
  THEN [project |-> [proj EXCEPT !.sources[sourceIndex + 1].status = status],
        notice |-> "", saves |-> TRUE]
  ELSE [project |-> proj, notice |-> "", saves |-> FALSE]

---------------------------------------------------------------------------
(* Documents and inputs *)

BodyLines == {"", " ", "---", "## A", "## B", "## Sources", "a", "> q"}

Tails ==
  { <<>>,
    <<"">>,
    <<"", "---", "", "## Sources", "", "- [[n]]", "">>,
    <<"## Sources", "- [[n]]">>,
    <<"##  Sources ">>,
    <<"## B", "b", "", "---", "", "## Sources", "", "- [[n]]", "">>,
    <<" ", "", "## B", "> r  [[n|*]]", "">> }

RECURSIVE SeqsUpTo(_, _)
SeqsUpTo(S, n) ==
  IF n = 0 THEN {<<>>}
  ELSE LET shorter == SeqsUpTo(S, n - 1)
       IN  shorter \cup {Append(q, x) : q \in {r \in shorter : Len(r) = n - 1}, x \in S}

\* the documents an operation is applied to
InitDocs == {b \o t : b \in SeqsUpTo(BodyLines, MaxBody), t \in Tails} \ {<<>>}

\* the documents a sequence of operations starts from
SeedDocs ==
  { <<"## A", "a", "", "## B", "b", "", "---", "", "## Sources", "", "- [[n]]", "">>,
    <<"a", "## A", "> q", "## Sources", "- [[n]]">>,
    <<"## A", "a", "##  Sources ">>,
    <<"a", "", "---", "", "## Sources", "">>,
    <<"a", "", "## A", "> q", "">> }

Indices == (-1)..MaxIdx

\* fromIndices of a group: heading index followed by its children, contiguous
IndexRuns == {<<>>} \cup {[k \in 1..n |-> i + k - 1] : i \in Indices, n \in 1..2}

NoteNames == {"n", "m"}

NoteTexts ==
  { <<"x">>,
    <<"---", "t", "---", "# n", "", "x", "y", "">>,
    <<"# m", "x", "## Reference", "r">> }

Selections == { <<"x">>, <<" x", "y", "">>, <<"y [[m|*]]">> }

\* the arguments of the calls made in sequences
SeqIndices == 0..(MaxIdx - 1)

SeqRuns == {<<>>} \cup {[k \in 1..2 |-> i + k - 1] : i \in SeqIndices}

SeqTexts == { <<"x", "y", "">> }

\* the folder chosen in a modal: the vault root or a folder
Folders == {"", "f"}

\* the note name typed in ExtractSelectionModal (the modal submits no empty name)
NoteTitles == {"n", "A", "?"}

\* the text of a note the vault already holds
OldNote == <<"old", "">>

\* a vault with no other file
NoFiles == [p \in {} |-> <<>>]

\* the other files of the vault when an extraction starts
Vaults ==
  { NoFiles,
    [p \in {"A.md"} |-> OldNote],
    [p \in {"f/A.md", "n.md", "f/B.md"} |-> OldNote] }

\* the documents the parsers are called on: InitDocs, and documents with
\* lines that nearly are headings or rules
ParseDocs ==
  InitDocs \cup
  { <<"a", "## ", "## A", "## B", "b", "x", "##  ", "b">>,
    <<"##", "## ", "### A", "a">>,
    <<"a", "## A", "x", "> q", "", "y", "## B", "## A", "z">>,
    <<"a", "---", "---", "## Sources">>,
    <<"a", "--", "", "----", "", "", "## Sources">>,
    <<"## A", "a", "##  B ", "> q", "", "## Sources", "- [[n]]", "## C", "c">> }

\* the notes that can be sent to the sources, the project file among them
SourcePaths == {"a.md", "b.md", "p.md"}

SourceIndices == (-1)..2

Statuses == {"unread", "active", "done"}

\* documents with several heading groups, for the outline
OutlineDocs ==
  { <<"## A", "a", "", "## B", "b", "", "## C", "c", "">>,
    <<"o", "", "## A", "> q", "", "a", "", "## B", "b", "", "b2", "", "---", "",
      "## Sources", "", "- [[n]]", "">>,
    <<"## A", "## B", "b", "", "c", "## C">>,
    <<"## A", "a", "", "a2", "", "## B", "b", "", "b2", "", "b3", "", "## C", "">> }

\* the documents and block indices of the calls made while another call or
\* the editor is at work
RaceDocs ==
  { <<"a", "", "b", "", "c", "">>,
    <<"## A", "", "> q", "", "b", "", "---", "", "## Sources", "", "- [[n]]", "">>,
    <<"a", "## A", "b">> }

RaceIndices == {0, 1}

\* the pieces of an exported line: words, the three kinds of link, and the
\* characters of a link outside one
ExportTokens == {"x ", "[[A|B]]", "[[C d]]", "[[n|*]]", "> q ", "|", "*"}

\* the lines made of one or two pieces
ExportLines == ExportTokens \cup {t \o u : t \in ExportTokens, u \in ExportTokens}

\* the documents exported: a section with one such line, with or without
\* text above the section and sections below it
ExportDocs ==
  { pre \o <<"## A", l>> \o post :
      l \in ExportLines,
      pre \in {<<>>, <<"p [[C d]]">>},
      post \in {<<>>,
                <<"", "", "", "## B [[A|B]]", "[[C d]]", "> q [[n|*]]", "---", "",
                  "## Sources", "- [[n]]">>} }

\* the documents an extraction is made from: InitDocs, and documents with a
\* section that is already referenced or has a heading that is no file name
ExtractDocs ==
  InitDocs \cup
  { <<"## A?", "a", "", "## Sources", "- [[A]]", "">>,
    <<"a", "## A/B: ", "", "a", "", "## B", "b">> }

---------------------------------------------------------------------------
(* State machine: one action per operation, applied to the project file.   *)
(* doc is the text of the project file, prev the text the last operation   *)
(* read, op the last call and its arguments (src a note name, folder the   *)
(* folder chosen in a modal), committed / threw / notice                   *)
(* how that call ended, steps the number of calls made.  vault maps the    *)
(* path of every other file of the vault to its text, vaultPrev is the     *)
(* vault the last modal callback found, modal holds the open extraction    *)
(* modal with what its callback has captured, or is empty.  out is the     *)
(* value returned by the last call of a parser on the project file.        *)
(* editor is empty while no markdown view has the project file open (doc   *)
(* is then the only copy) and holds the editor buffer while one has (doc   *)
(* is then the copy on disk).  calls holds the calls of an operation that  *)
(* may be in flight together, each idle, reading (it awaits vault.read),   *)
(* or done.                                                                *)

\* the calls that may be in flight together
CallIds == 1..MaxOps

\* a call not made yet: content is the text the call has read, over the text
\* its commit has replaced, fromDisk / toBuffer where it read and wrote
IdleCall ==
  [phase |-> "idle", name |-> "", a |-> 0, b |-> 0, content |-> <<>>, over |-> <<>>,
   fromDisk |-> FALSE, toBuffer |-> FALSE, committed |-> FALSE]

NoArgs == [a |-> 0, b |-> 0, idxs |-> <<>>, src |-> "", text |-> <<>>, folder |-> ""]

Note(name, args, result) ==
  \E r \in {result} :
  /\ doc' = r.content
  /\ prev' = doc
  /\ op' = [name |-> name, a |-> args.a, b |-> args.b, idxs |-> args.idxs,
            src |-> args.src, text |-> args.text, folder |-> args.folder]
  /\ committed' = r.committed
  /\ threw' = r.threw
  /\ notice' = r.notice
  /\ steps' = steps + 1
  /\ out' = out
  /\ UNCHANGED <<editor, calls>>

Record(name, args, result) ==
  /\ Note(name, args, result)
  /\ UNCHANGED <<project, saving>>

Apply(name, args, result) ==
  /\ Record(name, args, result)
  /\ UNCHANGED <<vault, vaultPrev, modal>>

StartIn(docs, vaults) ==
  /\ doc \in docs
  /\ prev = doc
  /\ op = [name |-> "init", a |-> 0, b |-> 0, idxs |-> <<>>, src |-> "", text |-> <<>>,
           folder |-> ""]
  /\ committed = FALSE
  /\ threw = FALSE
  /\ notice = ""
  /\ steps = 0
  /\ vault \in vaults
  /\ vaultPrev = vault
  /\ modal = <<>>
  /\ out = [fn |-> "", val |-> <<>>]
  /\ editor = <<>>
  /\ calls = [c \in CallIds |-> IdleCall]
  /\ project = NewProject
  /\ saving = <<>>

Start(docs) == StartIn(docs, {NoFiles})

Init == Start(InitDocs)

InitSeq == Start(SeedDocs)

\* Each operation as an action over the sets its arguments are drawn from.

MoveSectionOver(I) ==
  \E f \in I, t \in I :
    Apply("moveSection", [NoArgs EXCEPT !.a = f, !.b = t], moveSection(doc, f, t))

MoveBlockOver(I) ==
  \E f \in I, t \in I :
    Apply("moveBlock", [NoArgs EXCEPT !.a = f, !.b = t], moveBlock(doc, f, t))

MoveBlockGroupOver(R, I) ==
  \E fs \in R, t \in I :
    Apply("moveBlockGroup", [NoArgs EXCEPT !.idxs = fs, !.b = t],
          moveBlockGroup(doc, fs, t))

RemoveSectionOver(I) ==
  \E i \in I :
    Apply("removeSection", [NoArgs EXCEPT !.a = i], removeSection(doc, i))

RemoveBlockOver(I) ==
  \E i \in I :
    Apply("removeBlock", [NoArgs EXCEPT !.a = i], removeBlock(doc, i))

AddNoteToProjectOver(N, T) ==
  \E n \in N, raw \in T :
    Apply("addNoteToProject", [NoArgs EXCEPT !.src = n, !.text = raw],
          addNoteToProject(doc, n, raw))

AddSelectionToEssayOver(N, S) ==
  \E n \in N, sel \in S :
    Apply("addSelectionToEssay", [NoArgs EXCEPT !.src = n, !.text = sel],
          addSelectionToEssay(doc, sel, n))

\* The operations called once, on the document as constructed, with any
\* argument.

MoveSection == steps = 0 /\ MoveSectionOver(Indices)

MoveBlock == steps = 0 /\ MoveBlockOver(Indices)

MoveBlockGroup == steps = 0 /\ MoveBlockGroupOver(IndexRuns, Indices)

RemoveSection == steps = 0 /\ RemoveSectionOver(Indices)

RemoveBlock == steps = 0 /\ RemoveBlockOver(Indices)

\* extractSection ends by opening ExtractModal, which keeps what the call has
\* read until the modal is submitted or closed
ExtractSection ==
  /\ steps = 0
  /\ \E i \in Indices :
       \E r \in {extractSection(doc, i)} :
         /\ Record("extractSection", [NoArgs EXCEPT !.a = i], r)
         /\ modal' = IF r.notice = "ExtractModal"
                     THEN <<[kind |-> "section", content |-> doc, index |-> i,
                             selection |-> <<>>]>>
                     ELSE <<>>
         /\ UNCHANGED <<vault, vaultPrev>>

\* extractSelectionToNote only opens ExtractSelectionModal
ExtractSelectionToNote ==
  /\ steps = 0
  /\ \E sel \in Selections :
       /\ Record("extractSelectionToNote", [NoArgs EXCEPT !.text = sel], Return(doc))
       /\ modal' = <<[kind |-> "selection", content |-> doc, index |-> 0,
                      selection |-> sel]>>
       /\ UNCHANGED <<vault, vaultPrev>>

\* a modal callback ends: the project file is replaced if the callback called
\* setFileContent, the vault is the one the callback leaves
Submit(name, args, r) ==
  /\ Record(name, args, IF r.committed THEN r ELSE [r EXCEPT !.content = doc])
  /\ vault' = r.vault
  /\ vaultPrev' = vault
  /\ modal' = <<>>

\* ExtractModal is submitted with a folder
SubmitExtractSection ==
  /\ modal # <<>>
  /\ modal[1].kind = "section"
  /\ \E folder \in Folders :
       Submit("ExtractModal.onSubmit", [NoArgs EXCEPT !.a = modal[1].index, !.folder = folder],
              extractSectionSubmit(modal[1].content, modal[1].index, folder, vault))

\* ExtractSelectionModal is submitted with a note name and a folder
SubmitExtractSelection ==
  /\ modal # <<>>
  /\ modal[1].kind = "selection"
  /\ \E noteName \in NoteTitles, folder \in Folders :
       Submit("ExtractSelectionModal.onSubmit",
              [NoArgs EXCEPT !.src = noteName, !.folder = folder,
                            !.text = modal[1].selection],
              extractSelectionSubmit(modal[1].selection, noteName, folder, doc, vault))

\* a modal is closed without being submitted
CloseModal ==
  /\ modal # <<>>
  /\ modal' = <<>>
  /\ UNCHANGED <<doc, prev, op, committed, threw, notice, steps, vault, vaultPrev, out,
                 editor, calls, project, saving>>

AddBlankSection ==
  /\ steps = 0
  /\ Apply("addBlankSection", NoArgs, addBlankSection(doc))

AddNoteToProject == steps = 0 /\ AddNoteToProjectOver(NoteNames, NoteTexts)

AddSelectionToEssay == steps = 0 /\ AddSelectionToEssayOver(NoteNames, Selections)

QuoteSelectionFromSource ==
  /\ steps = 0
  /\ \E n \in NoteNames, sel \in Selections :
       Apply("quoteSelectionFromSource", [NoArgs EXCEPT !.src = n, !.text = sel],
             quoteSelectionFromSource(doc, sel, n))

\* The operations called one after another, up to MaxOps calls, with the
\* arguments of SeqIndices, SeqRuns and SeqTexts.

SeqMoveSection == steps < MaxOps /\ MoveSectionOver(SeqIndices)

SeqMoveBlock == steps < MaxOps /\ MoveBlockOver(SeqIndices)

SeqMoveBlockGroup == steps < MaxOps /\ MoveBlockGroupOver(SeqRuns, SeqIndices)

SeqRemoveSection == steps < MaxOps /\ RemoveSectionOver(SeqIndices)

SeqRemoveBlock == steps < MaxOps /\ RemoveBlockOver(SeqIndices)

SeqAddBlankSection ==
  /\ steps < MaxOps
  /\ Apply("addBlankSection", NoArgs, addBlankSection(doc))

SeqAddNoteToProject == steps < MaxOps /\ AddNoteToProjectOver(NoteNames, SeqTexts)

SeqAddSelectionToEssay == steps < MaxOps /\ AddSelectionToEssayOver(NoteNames, SeqTexts)

\* a parser is called on the project file
Parse(fn, val) ==
  /\ out' = [fn |-> fn, val |-> val]
  /\ steps' = steps + 1
  /\ UNCHANGED <<doc, prev, op, committed, threw, notice, vault, vaultPrev, modal,
                 editor, calls, project, saving>>

ParseSections == steps = 0 /\ Parse("parseSections", parseSections(doc))

ParseBlocks == steps = 0 /\ Parse("parseBlocks", parseBlocks(doc))

GroupBlocks == steps = 0 /\ Parse("groupBlocks", groupBlocks(parseBlocks(doc)))

\* copyCleanExport is called, with either value of the exportIncludeHeadings
\* setting; out holds the text written to the clipboard
CopyCleanExport ==
  /\ steps = 0
  /\ \E includeHeadings \in BOOLEAN :
       \E text \in {copyCleanExport(doc, includeHeadings)} :
         /\ out' = [fn |-> "copyCleanExport", val |-> text]
         /\ op' = [NoArgs EXCEPT !.a = IF includeHeadings THEN 1 ELSE 0]
                   @@ [name |-> "copyCleanExport"]
         /\ notice' = IF text = <<>> THEN "Nothing to export" ELSE "Copied to clipboard"
         /\ steps' = steps + 1
         /\ UNCHANGED <<doc, prev, committed, threw, vault, vaultPrev, modal, editor, calls, project, saving>>

\* getFileContent where no read of the disk is awaited: the buffer of the
\* markdown view that has the file, else the text on disk
getFileContent == IF editor # <<>> THEN editor[1] ELSE doc

\* setFileContent: editor.setValue(content) if a markdown view has the file,
\* else vault.modify(file, content)
setFileContent(content) ==
  IF editor # <<>>
  THEN editor' = <<content>> /\ doc' = doc
  ELSE doc' = content /\ editor' = editor

\* what a call computes from the text it has read
Compute(name, content, a, b) ==
  IF name = "moveBlock" THEN moveBlock(content, a, b) ELSE removeBlock(content, a)

\* a call from the return of its read to its end: it computes the new text
\* and commits it with setFileContent unless it returns early
Finish(c, name, a, b, content, fromDisk) ==
  \E r \in {Compute(name, content, a, b)} :
    /\ IF r.committed THEN setFileContent(r.content) ELSE UNCHANGED <<doc, editor>>
    /\ calls' = [calls EXCEPT ![c] =
                   [phase |-> "done", name |-> name, a |-> a, b |-> b,
                    content |-> content, over |-> getFileContent,
                    fromDisk |-> fromDisk, toBuffer |-> r.committed /\ editor # <<>>,
                    committed |-> r.committed]]
    /\ prev' = content
    /\ op' = [NoArgs EXCEPT !.a = a, !.b = b] @@ [name |-> name]
    /\ committed' = r.committed
    /\ threw' = r.threw
    /\ notice' = r.notice
    /\ steps' = steps + 1
    /\ UNCHANGED <<vault, vaultPrev, modal, out, project, saving>>

\* a call is made.  With the file open getFileContent returns the buffer
\* without leaving the event loop's turn, and the call runs to its end; else
\* it awaits vault.read, which has the text on disk
Begin(c, name, a, b) ==
  /\ calls[c].phase = "idle"
  /\ \A d \in 1..(c - 1) : calls[d].phase # "idle"
  /\ IF editor # <<>>
     THEN Finish(c, name, a, b, editor[1], FALSE)
     ELSE /\ calls' = [calls EXCEPT ![c] =
                         [IdleCall EXCEPT !.phase = "reading", !.name = name, !.a = a,
                                          !.b = b, !.content = doc, !.fromDisk = TRUE]]
          /\ UNCHANGED <<doc, prev, op, committed, threw, notice, steps, vault,
                         vaultPrev, modal, out, editor, project, saving>>

CallMoveBlock ==
  /\ modal = <<>>
  /\ \E c \in CallIds, f \in RaceIndices, t \in RaceIndices : Begin(c, "moveBlock", f, t)

CallRemoveBlock ==
  /\ modal = <<>>
  /\ \E c \in CallIds, i \in RaceIndices : Begin(c, "removeBlock", i, 0)

\* the one call made while the user is at work in the editor
SoleMoveBlock ==
  /\ modal = <<>>
  /\ \E f \in RaceIndices, t \in RaceIndices : Begin(1, "moveBlock", f, t)

SoleRemoveBlock ==
  /\ modal = <<>>
  /\ \E i \in RaceIndices : Begin(1, "removeBlock", i, 0)

\* vault.read returns to a call that awaits it
ReadReturns ==
  \E c \in CallIds :
    /\ calls[c].phase = "reading"
    /\ Finish(c, calls[c].name, calls[c].a, calls[c].b, calls[c].content, TRUE)

\* the user opens the project file in a markdown view
OpenEditor ==
  /\ editor = <<>>
  /\ editor' = <<doc>>
  /\ UNCHANGED <<doc, prev, op, committed, threw, notice, steps, vault, vaultPrev,
                 modal, out, calls, project, saving>>

\* the user types a line into the buffer
TypeInEditor ==
  /\ editor # <<>>
  /\ editor[1][1] # "u"
  /\ editor' = <<<<"u">> \o editor[1]>>
  /\ UNCHANGED <<doc, prev, op, committed, threw, notice, steps, vault, vaultPrev,
                 modal, out, calls, project, saving>>

\* the editor saves its buffer
SaveEditor ==
  /\ editor # <<>>
  /\ editor[1] # doc
  /\ doc' = editor[1]
  /\ UNCHANGED <<prev, op, committed, threw, notice, steps, vault, vaultPrev,
                 modal, out, editor, calls, project, saving>>

\* the view is closed, which saves its buffer
CloseEditor ==
  /\ editor # <<>>
  /\ doc' = editor[1]
  /\ editor' = <<>>
  /\ UNCHANGED <<prev, op, committed, threw, notice, steps, vault, vaultPrev,
                 modal, out, calls, project, saving>>

\* one reorder operation on any document
NextMove == MoveSection \/ MoveBlock \/ MoveBlockGroup

SpecMove == Init /\ [][NextMove]_vars

\* one remove or extract operation on any document
NextRemove == RemoveSection \/ RemoveBlock \/ ExtractSection

SpecRemove == Init /\ [][NextRemove]_vars

\* one insert operation on any document
NextInsert ==
  \/ AddBlankSection
  \/ AddNoteToProject
  \/ AddSelectionToEssay
  \/ QuoteSelectionFromSource

SpecInsert == Init /\ [][NextInsert]_vars

\* sequences of reorder, remove and insert operations on the seed documents
NextSeq ==
  \/ SeqMoveSection
  \/ SeqMoveBlock
  \/ SeqMoveBlockGroup
  \/ SeqRemoveSection
  \/ SeqRemoveBlock
  \/ SeqAddBlankSection
  \/ SeqAddNoteToProject
  \/ SeqAddSelectionToEssay

SpecSeq == InitSeq /\ [][NextSeq]_vars

\* one operation of any kind on any document
NextOne ==
  \/ MoveSection
  \/ MoveBlock
  \/ MoveBlockGroup
  \/ RemoveSection
  \/ RemoveBlock
  \/ ExtractSection
  \/ AddBlankSection
  \/ AddNoteToProject
  \/ AddSelectionToEssay
  \/ QuoteSelectionFromSource

SpecOne == Init /\ [][NextOne]_vars

\* one call of a parser on any document
InitParse == Start(ParseDocs)

NextParse == ParseSections \/ ParseBlocks \/ GroupBlocks

SpecParse == InitParse /\ [][NextParse]_vars

\* one clean export of any document
InitExport == Start(ExportDocs \cup InitDocs)

NextExport == CopyCleanExport

SpecExport == InitExport /\ [][NextExport]_vars

\* calls of moveBlock and removeBlock made while another is in flight, on a
\* file no editor has open
InitRace == Start(RaceDocs)

NextRace == CallMoveBlock \/ CallRemoveBlock \/ ReadReturns

SpecRace == InitRace /\ [][NextRace]_vars

\* one call of moveBlock or removeBlock while the user opens, edits, saves
\* and closes the file
NextReconcile ==
  \/ OpenEditor
  \/ TypeInEditor
  \/ SaveEditor
  \/ CloseEditor
  \/ SoleMoveBlock
  \/ SoleRemoveBlock
  \/ ReadReturns

SpecReconcile == InitRace /\ [][NextReconcile]_vars

\* one extraction from any document: the call, then its modal
InitExtract == StartIn(ExtractDocs, Vaults)

NextExtract ==
  \/ ExtractSection
  \/ ExtractSelectionToNote
  \/ SubmitExtractSection
  \/ SubmitExtractSelection
  \/ CloseModal

SpecExtract == InitExtract /\ [][NextExtract]_vars

\* a removeBlock call made just before extractSection: both calls read the
\* same text, and this one writes while the ExtractModal prompt is open
PendingRemoveBlock ==
  /\ modal # <<>>
  /\ steps = 1
  /\ RemoveBlockOver(Indices)

\* an extractSection prompt with a commit of another call before it is answered
NextStale ==
  \/ ExtractSection
  \/ PendingRemoveBlock
  \/ SubmitExtractSection
  \/ CloseModal

SpecStale == InitExtract /\ [][NextStale]_vars

\* the groups renderContent draws for the project file
Groups == groupBlocks(parseBlocks(doc)).groups

\* the block indices that have a card
Cards == 0..(Len(parseBlocks(doc)) - 1)

Flag(b) == IF b THEN 1 ELSE 0

\* a block card is dragged and dropped on the card of block index
DropBlock ==
  /\ steps = 0
  /\ \E fromIdx \in Cards, index \in Cards, insertBefore \in BOOLEAN :
       Apply("drop",
             [NoArgs EXCEPT !.idxs = <<fromIdx>>, !.a = index,
                           !.b = Flag(insertBefore), !.src = "block"],
             dropBlock(doc, fromIdx, index, insertBefore))

\* a collapsed heading group is dragged and dropped on the card of block index
DropGroup ==
  /\ steps = 0
  /\ \E g \in 1..Len(Groups), index \in Cards, insertBefore \in BOOLEAN :
       Apply("drop",
             [NoArgs EXCEPT !.idxs = AllGroupIndices(Groups[g]), !.a = index,
                           !.b = Flag(insertBefore), !.src = "group"],
             dropGroup(doc, AllGroupIndices(Groups[g]), index, insertBefore))

\* the up arrow of a heading group card is clicked
MoveGroupUp ==
  /\ steps = 0
  /\ \E g \in 1..Len(Groups), isCollapsed \in BOOLEAN :
       Apply("moveGroupUp",
             [NoArgs EXCEPT !.idxs = AllGroupIndices(Groups[g]),
                           !.a = Flag(isCollapsed)],
             moveGroupUp(doc, Groups[g], isCollapsed))

\* the down arrow of a heading group card is clicked
MoveGroupDown ==
  /\ steps = 0
  /\ \E g \in 1..Len(Groups), isCollapsed \in BOOLEAN :
       Apply("moveGroupDown",
             [NoArgs EXCEPT !.idxs = AllGroupIndices(Groups[g]),
                           !.a = Flag(isCollapsed)],
             moveGroupDown(doc, Groups[g], isCollapsed))

\* a call on the source queue runs to its await of savePluginData: the list
\* is changed at once, the rest of the call waits in saving
QueueCall(name, args, r) ==
  /\ Note(name, args, ReturnNotice(doc, r.notice))
  /\ project' = r.project
  /\ saving' = IF r.saves THEN Append(saving, name) ELSE saving
  /\ UNCHANGED <<vault, vaultPrev, modal>>

AddSourceToQueue ==
  /\ steps < MaxCalls
  /\ \E path \in SourcePaths :
       QueueCall("addSourceToQueue", [NoArgs EXCEPT !.src = path],
                 addSourceToQueue(project, path))

RemoveSourceFromQueue ==
  /\ steps < MaxCalls
  /\ \E i \in SourceIndices :
       QueueCall("removeSourceFromQueue", [NoArgs EXCEPT !.a = i],
                 removeSourceFromQueue(project, i))

MarkSourceStatus ==
  /\ steps < MaxCalls
  /\ \E i \in SourceIndices, status \in Statuses :
       QueueCall("markSourceStatus", [NoArgs EXCEPT !.a = i, !.src = status],
                 markSourceStatus(project, i, status))

\* savePluginData of the oldest waiting call returns and the call ends; the
\* end of addSourceToQueue shows its notice
SavePluginDataDone ==
  /\ saving # <<>>
  /\ saving' = Tail(saving)
  /\ notice' = IF Head(saving) = "addSourceToQueue" THEN "Added to sources" ELSE notice
  /\ UNCHANGED <<doc, prev, op, committed, threw, steps, vault, vaultPrev, modal, out,
                 editor, calls, project>>

\* calls on the source queue of a project, issued in any order and back to back
InitSources == Start(SeedDocs)

NextSources ==
  \/ AddSourceToQueue
  \/ RemoveSourceFromQueue
  \/ MarkSourceStatus
  \/ SavePluginDataDone

SpecSources == InitSources /\ [][NextSources]_vars

InitOutline == Start(OutlineDocs \cup SeedDocs)

NextOutline == DropBlock \/ DropGroup \/ MoveGroupUp \/ MoveGroupDown

SpecOutline == InitOutline /\ [][NextOutline]_vars

---------------------------------------------------------------------------
(* Observations of a document and of the last call *)

RemoveOps == {"removeSection", "removeBlock"}

PullOps == {"addNoteToProject", "addSelectionToEssay", "quoteSelectionFromSource"}

SequenceOps ==
  {"moveSection", "moveBlock", "moveBlockGroup", "removeSection", "removeBlock",
   "addBlankSection", "addNoteToProject", "addSelectionToEssay"}

\* the heading texts of the sections, in document order
Headings(d) ==
  With(parseSections(d), LAMBDA ss : [i \in 1..Len(ss) |-> ss[i].heading])

\* there is exactly one pinned section and no section follows it
PinnedIsLast(d) ==
  With(parseSections(d), LAMBDA ss :
    Len(ss) > 0 /\ {i \in 1..Len(ss) : ss[i].pinned} = {Len(ss)})

NoPinned(d) == FindPinned(parseSections(d)) = <<>>

PinnedHeading(d) == FindPinned(parseSections(d))[1].heading

\* the number of non-pinned sections and of blocks the last call found
SectionCount(d) == Len(Draggable(parseSections(d)))

BlockCount(d) == Len(parseBlocks(d))

InRange(i, n) == 0 <= i /\ i < n

\* the non-blank lines of a range of lines, in order
NonBlank(lines) ==
  With(lines, LAMBDA a : FilterSeq(a, {i \in 1..Len(a) : ~IsBlank(a[i])}))

\* the multiset of the non-blank lines of a document
LineBag(d) ==
  [l \in {d[i] : i \in {j \in 1..Len(d) : ~IsBlank(d[j])}} |->
     Cardinality({i \in 1..Len(d) : d[i] = l})]

\* heading and body of every non-pinned section, in document order
SectionUnits(d) ==
  With(Draggable(parseSections(d)), LAMBDA ss :
    [i \in 1..Len(ss) |->
       [heading |-> ss[i].heading,
        body |-> NonBlank(Slice(d, ss[i].startLine + 1, ss[i].endLine))]])

\* heading and body of the pinned section
PinnedUnit(d) ==
  With(FindPinned(parseSections(d))[1], LAMBDA p :
    [heading |-> p.heading, body |-> NonBlank(Slice(d, p.startLine + 1, p.endLine))])

\* s with element from (0-based) taken out and put back at position to
Reinsert(s, from, to) ==
  With(SubSeq(s, 1, from) \o SubSeq(s, from + 2, Len(s)), LAMBDA rest :
    SubSeq(rest, 1, to) \o <<s[from + 1]>> \o SubSeq(rest, to + 1, Len(rest)))

\* s without element i (0-based)
RemoveAt(s, i) == SubSeq(s, 1, i) \o SubSeq(s, i + 2, Len(s))

\* the position among all sections (0-based) of non-pinned section i
SectionPos(d, i) ==
  With(parseSections(d), LAMBDA ss :
    (CHOOSE k \in 1..Len(ss) :
       /\ ~ss[k].pinned
       /\ Cardinality({j \in 1..(k - 1) : ~ss[j].pinned}) = i) - 1)

\* some heading line ends in whitespace
HeadingEndsInSpace(d) ==
  \E i \in 1..Len(d) : HeadingMatch(d[i]) /\ TrimEndLine(d[i]) # d[i]

\* the last call was a move between two different valid positions
ValidMove ==
  \/ /\ op.name = "moveSection"
     /\ op.a # op.b
     /\ InRange(op.a, SectionCount(prev))
     /\ InRange(op.b, SectionCount(prev))
  \/ /\ op.name = "moveBlock"
     /\ op.a # op.b
     /\ InRange(op.a, BlockCount(prev))
     /\ InRange(op.b, BlockCount(prev))
  \/ /\ op.name = "moveBlockGroup"
     /\ op.idxs # <<>>
     /\ \A k \in 1..Len(op.idxs) : op.idxs[k] # op.b
     /\ InRange(op.b, BlockCount(prev))
     /\ \A k \in 1..Len(op.idxs) : InRange(op.idxs[k], BlockCount(prev))

\* the last call was a move of a unit onto itself
SelfMove ==
  \/ /\ op.name = "moveSection"
     /\ op.a = op.b
     /\ InRange(op.a, SectionCount(prev))
  \/ /\ op.name = "moveBlock"
     /\ op.a = op.b
     /\ InRange(op.a, BlockCount(prev))
  \/ /\ op.name = "moveBlockGroup"
     /\ (op.idxs = <<>> \/ \E k \in 1..Len(op.idxs) : op.idxs[k] = op.b)

\* the last call had an index argument outside the valid range
OutOfRange ==
  \/ /\ op.name = "moveSection"
     /\ ~(InRange(op.a, SectionCount(prev)) /\ InRange(op.b, SectionCount(prev)))
  \/ /\ op.name = "moveBlock"
     /\ ~(InRange(op.a, BlockCount(prev)) /\ InRange(op.b, BlockCount(prev)))
  \/ /\ op.name = "moveBlockGroup"
     /\ \/ ~InRange(op.b, BlockCount(prev))
        \/ \E k \in 1..Len(op.idxs) : ~InRange(op.idxs[k], BlockCount(prev))
  \/ /\ op.name \in {"removeSection", "extractSection"}
     /\ ~InRange(op.a, SectionCount(prev))
  \/ /\ op.name = "removeBlock"
     /\ ~InRange(op.a, BlockCount(prev))

\* a run of three or more consecutive blank lines
BlankRun3(d) ==
  \E i \in 1..(Len(d) - 2) : IsBlank(d[i]) /\ IsBlank(d[i + 1]) /\ IsBlank(d[i + 2])

\* the text ends with exactly one newline, with no whitespace before it
EndsClean(d) ==
  /\ Len(d) >= 2
  /\ d[Len(d)] = ""
  /\ TrimEndLine(d[Len(d) - 1]) = d[Len(d) - 1]
  /\ (Len(d) = 2 \/ d[Len(d) - 1] # "")

\* the line (1-based) of the rule that stands directly above the pinned
\* heading, blank lines aside; 0 if there is none
RuleAbovePinned(d) ==
  With(PinnedStart(d), LAMBDA p :
    IF p = Len(d) THEN 0
    ELSE With(BackBlank(d, p), LAMBDA h :
           IF h > 0 /\ IsHR(d[h]) THEN h ELSE 0))

\* a rule above the pinned heading with nothing but blank lines above it
DanglingRule(d) ==
  With(RuleAbovePinned(d), LAMBDA h :
    h > 0 /\ \A i \in 1..(h - 1) : IsBlank(d[i]))

\* the back-reference entries for name in the pinned section
BackRefLines(d, name) ==
  With(FindPinned(parseSections(d))[1], LAMBDA p :
    {i \in (p.startLine + 2)..p.endLine : d[i] = BackRef(name)})

---------------------------------------------------------------------------
(* Properties *)

\* C1 as stated: in a sequence of moveSection, moveBlock, moveBlockGroup,
\* removeSection, removeBlock, addBlankSection, addNoteToProject and
\* addSelectionToEssay on a document whose pinned section is last, after each
\* operation a pinned section exists, has the identical heading text and is
\* the last section.
C1_PinnedHeadingIdentical ==
  (op.name \in SequenceOps /\ PinnedIsLast(prev)) =>
    (PinnedIsLast(doc) /\ PinnedHeading(doc) = PinnedHeading(prev))

\* C1 (amended): under the same operations, after each operation a pinned
\* section exists and is the last section, and its heading text is the one
\* before the operation up to whitespace at its end.
C1_PinnedStaysLast ==
  (op.name \in SequenceOps /\ PinnedIsLast(prev)) =>
    /\ PinnedIsLast(doc)
    /\ TrimEndLine(PinnedHeading(doc)) = TrimEndLine(PinnedHeading(prev))

\* a second operation has rewritten a document whose pinned section is last
C1_Witness ==
  /\ steps >= 2
  /\ committed
  /\ op.name \in SequenceOps
  /\ PinnedIsLast(prev)
  /\ doc # prev
  /\ PinnedIsLast(doc)
  /\ PinnedHeading(doc) # PinnedHeading(prev)

\* C2: a move between two different valid positions leaves the multiset of
\* the non-blank lines of the document as it was.
C2_MoveConservesLines ==
  ValidMove => LineBag(doc) = LineBag(prev)

\* a valid move has changed the order of the lines
C2_Witness ==
  /\ ValidMove
  /\ committed
  /\ NonBlank(doc) # NonBlank(prev)
  /\ op.name = "moveBlockGroup"

C4_SelfMoveNoOp ==
  SelfMove => (~committed /\ ~threw /\ doc = prev)

\* a group has been dropped on one of its own blocks
C4_Witness ==
  /\ op.name = "moveBlockGroup"
  /\ Len(op.idxs) = 2
  /\ op.idxs[1] >= 0
  /\ op.b = op.idxs[2]
  /\ InRange(op.b, BlockCount(prev))
  /\ ~committed
  /\ doc = prev

\* C5: a call of moveSection, moveBlock, moveBlockGroup, removeSection,
\* removeBlock or extractSection with an index outside the valid range
\* returns without raising an error and without committing text.
C5_OutOfRangeNoOp ==
  OutOfRange => (~threw /\ ~committed /\ doc = prev)

\* C6 as stated: removeSection(i) with valid i leaves one section fewer, the
\* remaining sections keeping their headings and order.
C6_RemoveSectionHeadings ==
  (op.name = "removeSection" /\ InRange(op.a, SectionCount(prev))) =>
    /\ committed
    /\ Len(parseSections(doc)) = Len(parseSections(prev)) - 1
    /\ Headings(doc) = RemoveAt(Headings(prev), SectionPos(prev, op.a))

\* C6 (amended): the same, for a document none of whose heading lines ends
\* in whitespace.
C6_RemoveSectionCount ==
  (/\ op.name = "removeSection"
   /\ InRange(op.a, SectionCount(prev))
   /\ ~HeadingEndsInSpace(prev)) =>
    /\ committed
    /\ Len(parseSections(doc)) = Len(parseSections(prev)) - 1
    /\ Headings(doc) = RemoveAt(Headings(prev), SectionPos(prev, op.a))

\* one of two sections with the same heading has been removed
C6_Witness ==
  /\ op.name = "removeSection"
  /\ committed
  /\ ~HeadingEndsInSpace(prev)
  /\ Len(parseSections(prev)) >= 3
  /\ \E i \in 1..Len(parseSections(doc)) :
       Headings(doc)[i] = Headings(prev)[SectionPos(prev, op.a) + 1]

\* C7: removeBlock(i) with valid i leaves exactly one block fewer.
C7_RemoveBlockCount ==
  (op.name = "removeBlock" /\ InRange(op.a, BlockCount(prev))) =>
    (committed /\ BlockCount(doc) = BlockCount(prev) - 1)

\* C8: after removeBlock or removeSection commits, the text has no run of
\* three or more blank lines, no whitespace before its final newline, and
\* exactly one final newline.
C8_RemoveNormalised ==
  (committed /\ op.name \in RemoveOps) => (~BlankRun3(doc) /\ EndsClean(doc))

\* C9: removing the last content above the pinned section leaves no rule
\* above the pinned heading that has no content above it.
C9_NoDanglingRule ==
  (committed /\ op.name \in RemoveOps /\ ~DanglingRule(prev)) => ~DanglingRule(doc)

\* C10: addNoteToProject, addSelectionToEssay or quoteSelectionFromSource on
\* a document with no pinned section commits a text with exactly one pinned
\* section, headed by the configured name, last, holding exactly one
\* back-reference entry for the source.
C10_NewPinnedSection ==
  (op.name \in PullOps /\ NoPinned(prev)) =>
    /\ committed
    /\ PinnedIsLast(doc)
    /\ PinnedHeading(doc) = pinnedSectionName
    /\ Cardinality(BackRefLines(doc, op.src)) = 1

\* a selection has been quoted into a document that had sections but no
\* pinned one
C10_Witness ==
  /\ op.name = "quoteSelectionFromSource"
  /\ NoPinned(prev)
  /\ Len(parseSections(prev)) >= 1
  /\ committed
  /\ PinnedIsLast(doc)

\* the operations that insert new content
InsertOps ==
  {"addBlankSection", "addNoteToProject", "addSelectionToEssay",
   "quoteSelectionFromSource"}

\* C11: when a pinned section exists, addBlankSection, addNoteToProject,
\* addSelectionToEssay and quoteSelectionFromSource put the new content at
\* the line a move to the end would use (EndInsertLine), above the blank
\* lines and the rule over the pinned heading, so that a rule standing
\* directly above the pinned heading still stands directly above it.
C11_InsertAboveRule ==
  (/\ op.name \in InsertOps
   /\ committed
   /\ ~NoPinned(prev)
   /\ RuleAbovePinned(prev) > 0) =>
    /\ RuleAbovePinned(doc) > 0
    /\ Slice(doc, 0, EndInsertLine(prev)) = Slice(prev, 0, EndInsertLine(prev))

\* section i of the draggable sections of d exists and has only blank lines
\* under its heading
EmptyBodyAt(d, i) ==
  LET ds == Draggable(parseSections(d))
  IN  /\ i >= 0
      /\ i < Len(ds)
      /\ \A k \in (ds[i + 1].startLine + 2)..ds[i + 1].endLine : IsBlank(d[k])

\* C12: extractSection on a section whose body is only blank lines reports
\* the empty-extraction condition and changes nothing: the notice is shown,
\* no modal is opened, no file is created and no text is committed.
C12_EmptyExtractRefused ==
  (op.name = "extractSection" /\ EmptyBodyAt(prev, op.a)) =>
    /\ notice = "Cannot extract an empty section"
    /\ modal = <<>>
    /\ vault = vaultPrev
    /\ ~committed
    /\ ~threw
    /\ doc = prev

C12_Witness ==
  /\ op.name = "extractSection"
  /\ EmptyBodyAt(prev, op.a)
  /\ SectionCount(prev) > 1
  /\ vault # NoFiles
  /\ notice = "Cannot extract an empty section"

\* the last call was an ExtractModal callback that created the note
Extracted == op.name = "ExtractModal.onSubmit" /\ notice = "Extracted"

\* the file name of the section the last extraction was made from
ExtractedName == sanitizeFilename(Draggable(parseSections(prev))[op.a + 1].heading)

\* the pinned section of d already links to name
LinkedInPinned(d, name) ==
  With(FindPinned(parseSections(d))[1], LAMBDA p :
    \E i \in (p.startLine + 1)..p.endLine : LineIncludes(d[i], "[[" \o name \o "]]"))

\* d is e with one back-reference line for name added inside its pinned section
OneBackRefAdded(d, e, name) ==
  With(FindPinned(parseSections(d))[1], LAMBDA p :
    \E k \in (p.startLine + 2)..p.endLine :
      d[k] = BackRef(name) /\ RemoveAt(d, k - 1) = e)

\* d ends in a new pinned section that holds one back-reference for name
\* and stands last, under a rule
NewPinnedAppended(d, name) ==
  /\ PinnedIsLast(d)
  /\ PinnedUnit(d) = [heading |-> pinnedSectionName, body |-> <<BackRef(name)>>]
  /\ RuleAbovePinned(d) > 0

SubmitOps == {"ExtractModal.onSubmit", "ExtractSelectionModal.onSubmit"}

\* the path the last modal callback was to write the new note to
SubmittedPath ==
  IF op.name = "ExtractModal.onSubmit"
  THEN TargetPath(op.folder, ExtractedName)
  ELSE TargetPath(op.folder, sanitizeFilename(op.src))

\* C14: when the destination path of an extraction (extractSection or
\* extractSelectionToNote) already exists, nothing is written: the existing
\* file keeps its text, no file is created and the project file is not changed.
C14_ExistingNotOverwritten ==
  (op.name \in SubmitOps /\ SubmittedPath \in DOMAIN vaultPrev) =>
    /\ vault = vaultPrev
    /\ ~committed
    /\ doc = prev
    /\ notice = "already exists"

C14_Witness ==
  /\ op.name = "ExtractSelectionModal.onSubmit"
  /\ op.folder = "f"
  /\ SubmittedPath \in DOMAIN vaultPrev
  /\ vault[SubmittedPath] = OldNote
  /\ notice = "already exists"

\* the lines (0-based) of d that match /^## (.+)$/
HeadingLines(d) == {i \in 0..(Len(d) - 1) : HeadingMatch(d[i + 1])}

\* C15: parseSections returns the sections in increasing line order, one
\* for each line that matches "## <text>" with a non-empty text; each section
\* starts at its heading line and ends (exclusive) at the next heading line,
\* the last at the end of the document, so that sections never overlap; a
\* document with no such line has no section.
C15_SectionsPartition ==
  (out.fn = "parseSections") =>
    LET ss == out.val
    IN  /\ Len(ss) = Cardinality(HeadingLines(doc))
        /\ {ss[k].startLine : k \in 1..Len(ss)} = HeadingLines(doc)
        /\ \A k \in 1..Len(ss) :
             /\ ss[k].heading = SubSeq(doc[ss[k].startLine + 1], 4,
                                       Len(doc[ss[k].startLine + 1]))
             /\ ss[k].heading # ""
             /\ ss[k].startLine < ss[k].endLine
             /\ ss[k].endLine = IF k < Len(ss) THEN ss[k + 1].startLine ELSE Len(doc)
        /\ (HeadingLines(doc) = {} => ss = <<>>)

C15_Witness ==
  /\ out.fn = "parseSections"
  /\ Len(out.val) >= 3
  /\ out.val[1].startLine > 0
  /\ out.val[2].endLine > out.val[2].startLine + 1
  /\ \E i \in 1..Len(doc) : doc[i] = "## "

\* C16: parseSections marks at most one section as pinned, the first whose
\* heading is the pinned section name.
C16_AtMostOnePinned ==
  (out.fn = "parseSections") =>
    LET marked == {k \in 1..Len(out.val) : out.val[k].pinned}
    IN  /\ Cardinality(marked) <= 1
        /\ \A k \in marked :
             \A j \in 1..(k - 1) : ~IsPinnedHeading(doc[out.val[j].startLine + 1])

\* the lines (0-based) of d above its first pinned heading that are neither
\* blank nor a rule
ContentLines(d) ==
  LET pinned == {i \in 0..(Len(d) - 1) : IsPinnedHeading(d[i + 1])}
  IN  {i \in 0..(Len(d) - 1) :
         /\ \A p \in pinned : i < p
         /\ ~IsBlank(d[i + 1])
         /\ ~IsHR(d[i + 1])}

\* C17: the blocks of parseBlocks are ordered, non-overlapping, non-empty
\* ranges of lines whose union is exactly the set of non-blank, non-rule
\* lines above the first pinned heading: each such line lies in exactly one
\* block, and no blank line, rule line or line at or after the pinned heading
\* lies in any block.
C17_BlocksCoverContent ==
  (out.fn = "parseBlocks") =>
    LET bs == out.val
    IN  /\ \A k \in 1..Len(bs) : bs[k].startLine < bs[k].endLine
        /\ \A k \in 1..(Len(bs) - 1) : bs[k].endLine <= bs[k + 1].startLine
        /\ UNION {bs[k].startLine..(bs[k].endLine - 1) : k \in 1..Len(bs)}
             = ContentLines(doc)

C17_Witness ==
  /\ out.fn = "parseBlocks"
  /\ Len(out.val) >= 3
  /\ ~NoPinned(doc)
  /\ \E i \in 1..PinnedStart(doc) : IsHR(doc[i])
  /\ \E i \in 1..PinnedStart(doc) : IsBlank(doc[i])
  /\ \E k \in 1..Len(out.val) : out.val[k].endLine > out.val[k].startLine + 1

\* the indices (0-based) of the heading blocks of bs
HeadingIndices(bs) == {i \in 0..(Len(bs) - 1) : bs[i + 1].type = "heading"}

\* the elements of a sequence of indices
Elements(s) == {s[k] : k \in 1..Len(s)}

\* a sequence of indices is strictly increasing
Increasing(s) == \A k \in 1..(Len(s) - 1) : s[k] < s[k + 1]

\* C18: groupBlocks partitions the block indices 0..n-1: orphans are the
\* indices before the first heading block, each heading block heads one
\* group, a group's childIndices are the consecutive non-heading indices
\* after its heading up to the next heading, the groups come in document
\* order, and every index is an orphan, a heading index or a child of
\* exactly one group.
C18_GroupsPartition ==
  (out.fn = "groupBlocks") =>
    LET bs == parseBlocks(doc)
        hs == HeadingIndices(bs)
        g  == out.val.groups
        o  == out.val.orphans
    IN  /\ Increasing(o)
        /\ Elements(o) = {i \in 0..(Len(bs) - 1) : \A h \in hs : i < h}
        /\ Len(g) = Cardinality(hs)
        /\ {g[k].headingIndex : k \in 1..Len(g)} = hs
        /\ \A k \in 1..(Len(g) - 1) : g[k].headingIndex < g[k + 1].headingIndex
        /\ \A k \in 1..Len(g) :
             /\ g[k].heading = bs[g[k].headingIndex + 1]
             /\ Increasing(g[k].childIndices)
             /\ Elements(g[k].childIndices) =
                  {i \in 0..(Len(bs) - 1) :
                     /\ i > g[k].headingIndex
                     /\ \A h \in hs : h > g[k].headingIndex => i < h}
             /\ g[k].children =
                  [c \in 1..Len(g[k].childIndices) |-> bs[g[k].childIndices[c] + 1]]
        /\ Len(o) + Len(g) + Cardinality(UNION {Elements(g[k].childIndices) : k \in 1..Len(g)})
             = Len(bs)

C18_Witness ==
  /\ out.fn = "groupBlocks"
  /\ Len(out.val.orphans) >= 1
  /\ Len(out.val.groups) >= 2
  /\ \E k \in 1..Len(out.val.groups) : Len(out.val.groups[k].childIndices) >= 2
  /\ \E k \in 1..Len(out.val.groups) : out.val.groups[k].childIndices = <<>>

\* C19: getFileContent reads and setFileContent writes the editor buffer
\* whenever the file is open, and the disk otherwise; hence no commit
\* replaces unsaved buffer edits with text computed from the copy on disk:
\* the buffer a call has replaced is the text the call has read.
C19_CommitKeepsBufferEdits ==
  \A c \in CallIds :
    (calls[c].phase = "done" /\ calls[c].toBuffer) =>
      calls[c].over = calls[c].content

\* C20: calls of moveBlock and removeBlock made in quick succession on a file
\* read from disk are serialized: each call reads the text only after the
\* call before it has committed, so that the text a commit replaces is the
\* text the call has read and no committed change is lost.
C20_CallsSerialized ==
  \A c \in CallIds :
    (calls[c].phase = "done" /\ calls[c].committed /\ calls[c].fromDisk) =>
      calls[c].over = calls[c].content

\* what an exported piece becomes: a sigil link nothing, [[A|B]] its display
\* text, [[C]] its target, anything else itself
TokenImage(t) ==
  CASE t = "[[n|*]]" -> ""
    [] t = "[[A|B]]" -> "B"
    [] t = "[[C d]]" -> "C d"
    [] OTHER -> t

\* C21: the clean export of a text with [[A|B]] links, [[C]] links and quote
\* blocks that end in a sigil [[Name|*]] contains no "[[" and no "]]" (and so
\* no sigil): the sigil links are removed entirely, [[A|B]] becomes B and
\* [[C]] becomes C.
C21_ExportStripsLinks ==
  (out.fn = "copyCleanExport" /\ out.val # <<>>) =>
    /\ \A i \in 1..Len(out.val) :
         ~LineIncludes(out.val[i], "[[") /\ ~LineIncludes(out.val[i], "]]")
    /\ \A t \in ExportTokens, u \in ExportTokens \cup {""} :
         (doc = <<"## A", t \o u>> /\ op.a = 1) =>
           out.val = Trim(<<"## A", TokenImage(t) \o TokenImage(u)>>)

C21_Witness ==
  /\ out.fn = "copyCleanExport"
  /\ doc = <<"## A", "[[A|B]][[n|*]]">>
  /\ op.a = 1
  /\ out.val = <<"## A", "B">>

\* s ends with the string p
EndsWith(s, p) == Len(s) >= Len(p) /\ SubSeq(s, Len(s) - Len(p) + 1, Len(s)) = p

\* the text the last pull-in call has quoted
PulledText ==
  IF op.name = "addNoteToProject"
  THEN StripReference(StripTitle(StripFrontmatter(op.text), op.src))
  ELSE Trim(op.text)

\* C22: after a note or a selection from source S is pulled in as a quote,
\* every line of the inserted block starts with the quote marker, its last
\* line ends with [[S|*]], and parseBlocks on the new document yields one
\* blockquote block that covers exactly the inserted lines and whose source
\* is S.
C22_AttributionRoundTrip ==
  (op.name \in {"addNoteToProject", "addSelectionToEssay"} /\ committed) =>
    LET bs == parseBlocks(doc)
        b  == bs[Len(bs)]
    IN  /\ Len(bs) > 0
        /\ b.type = "blockquote"
        /\ b.endLine - b.startLine = Len(PulledText)
        /\ \A i \in (b.startLine + 1)..b.endLine : StartsWith(doc[i], "> ")
        /\ EndsWith(doc[b.endLine], "  " \o Sigil(op.src))
        /\ b.source = <<op.src>>

\* the lines of every block of d, in document order
BlockTexts(d) ==
  With(parseBlocks(d), LAMBDA bs :
    [k \in 1..Len(bs) |-> Slice(d, bs[k].startLine, bs[k].endLine)])

\* the number of blocks left when block i (0-based) of d is taken out
RemainingBlocks(d, i) ==
  With(parseBlocks(d), LAMBDA bs :
    BlockCount(Join(Slice(d, 0, bs[i + 1].startLine)
                      \o Slice(d, bs[i + 1].endLine, Len(d)))))

\* the lines of a list of blocks, one after the other
ConcatAll(ss) ==
  LET f[n \in 0..Len(ss)] == IF n = 0 THEN <<>> ELSE f[n - 1] \o ss[n]
  IN  f[Len(ss)]

\* C23: after moveBlock(from, to) with valid from # to the moved block is
\* found, on parsing again, at index to when to is less than the number of
\* blocks that remain after the removal and as the last block otherwise, and
\* the lines of all other blocks are in their original relative order.
C23_MoveBlockTarget ==
  (/\ op.name = "moveBlock"
   /\ op.a # op.b
   /\ InRange(op.a, BlockCount(prev))
   /\ InRange(op.b, BlockCount(prev))) =>
    LET was == BlockTexts(prev)
        now == BlockTexts(doc)
        pos == IF op.b < RemainingBlocks(prev, op.a) THEN op.b ELSE Len(now) - 1
    IN  /\ committed
        /\ now[pos + 1] = was[op.a + 1]
        /\ ConcatAll(RemoveAt(now, pos)) = ConcatAll(RemoveAt(was, op.a))

\* a block moved to the last index of a document where its removal left
\* fewer blocks than one less: the target is beyond the remaining blocks
C23_Witness ==
  /\ op.name = "moveBlock"
  /\ committed
  /\ InRange(op.a, BlockCount(prev))
  /\ op.b = BlockCount(prev) - 1
  /\ op.a < op.b
  /\ op.b >= RemainingBlocks(prev, op.a)
  /\ BlockTexts(doc)[BlockCount(doc)] = BlockTexts(prev)[op.a + 1]
  /\ PinnedStart(doc) < Len(doc)

\* a moveBlock or moveBlockGroup call with indices inside the block list
ValidMoveCall ==
  \/ /\ op.name = "moveBlock"
     /\ op.a # op.b
     /\ InRange(op.a, BlockCount(prev))
     /\ InRange(op.b, BlockCount(prev))
  \/ /\ op.name = "moveBlockGroup"
     /\ Len(op.idxs) > 0
     /\ \A k \in 1..Len(op.idxs) : InRange(op.idxs[k], BlockCount(prev))
     /\ op.b >= 0
     /\ ~SeqIncludes(op.idxs, op.b)

\* first and last block index (0-based) of the unit the call moves
MovedFirst == IF op.name = "moveBlock" THEN op.a ELSE op.idxs[1]

MovedLast == IF op.name = "moveBlock" THEN op.a ELSE op.idxs[Len(op.idxs)]

\* the lines of the moved unit without the blank lines at its end
MovedLines ==
  With(parseBlocks(prev), LAMBDA bs :
    PopBlank(Slice(prev, bs[MovedFirst + 1].startLine, bs[MovedLast + 1].endLine)))

\* the text that is left when the moved unit is taken out
RestLines ==
  With(parseBlocks(prev), LAMBDA bs :
    Join(Slice(prev, 0, bs[MovedFirst + 1].startLine)
           \o Slice(prev, bs[MovedLast + 1].endLine, Len(prev))))

\* the target index is beyond the blocks that remain
TargetBeyond == ValidMoveCall /\ op.b >= BlockCount(RestLines)

\* C24: when the target index is beyond the remaining blocks, moveBlock and
\* moveBlockGroup put the moved lines immediately before the blank lines and
\* the rule directly above the pinned heading, the rule staying next to the
\* pinned heading, or at the end of the document when there is no pinned
\* section.
C24_EndInsertBeforeRule ==
  TargetBeyond =>
    LET p    == PinnedStart(doc)
        had  == RuleAbovePinned(RestLines) > 0
        e1   == BackBlank(doc, p)
        e2   == IF had THEN e1 - 1 ELSE e1
        e3   == BackBlank(doc, e2)
        n    == Len(MovedLines)
    IN  /\ committed
        /\ (PinnedStart(RestLines) < Len(RestLines)) = (p < Len(doc))
        /\ IF p < Len(doc)
           THEN /\ had => (e1 > 0 /\ IsHR(doc[e1]))
                /\ e3 >= n
                /\ Slice(doc, e3 - n, e3) = MovedLines
                /\ Slice(doc, p, Len(doc)) =
                     Cat(Slice(RestLines, PinnedStart(RestLines), Len(RestLines)),
                         <<"", "">>)
           ELSE /\ Len(doc) > n
                /\ Slice(doc, Len(doc) - 1 - n, Len(doc) - 1) = MovedLines
                /\ doc[Len(doc)] = ""

\* a heading with its child moved past the last remaining block of a document
\* that has a rule above its pinned section
C24_Witness ==
  /\ TargetBeyond
  /\ op.name = "moveBlockGroup"
  /\ Len(op.idxs) = 2
  /\ committed
  /\ RuleAbovePinned(RestLines) > 0
  /\ BlockCount(RestLines) > 0
  /\ RuleAbovePinned(doc) > 0

\* now is was with one line put in, or with lines appended after the white
\* space at the end of was is cut
OnlyLinesAdded(was, now) ==
  \/ \E k \in 0..(Len(now) - 1) : RemoveAt(now, k) = was
  \/ /\ Len(now) > Len(TrimEnd(was))
     /\ Slice(now, 0, Len(TrimEnd(was))) = TrimEnd(was)

\* C25: extractSection never commits text computed from a stale snapshot: the
\* text committed when the prompt is confirmed is the text the project file
\* had just before the confirmation with only the back-reference lines added.
C25_NoStaleCommit ==
  (op.name = "ExtractModal.onSubmit" /\ committed) => OnlyLinesAdded(prev, doc)

\* d ends with exactly one newline
EndsWithOneNewline(d) == Len(d) >= 2 /\ d[Len(d)] = "" /\ d[Len(d) - 1] # ""

\* C26: a document that ends with exactly one newline still ends with
\* exactly one newline after moveBlock, moveSection or moveBlockGroup.
C26_OneTrailingNewline ==
  (/\ op.name \in {"moveBlock", "moveSection", "moveBlockGroup"}
   /\ committed
   /\ EndsWithOneNewline(prev)) => EndsWithOneNewline(doc)

\* start line and heading text of every heading block of bs, in order
HeadingBlocks(bs) ==
  With(FilterSeq(bs, {i \in 1..Len(bs) : bs[i].type = "heading"}), LAMBDA hs :
    [k \in 1..Len(hs) |-> <<hs[k].startLine, hs[k].headingText>>])

\* start line and heading text of every non-pinned section of ss, in order
DraggableSections(ss) ==
  With(Draggable(ss), LAMBDA ds :
    [k \in 1..Len(ds) |-> <<ds[k].startLine, ds[k].heading>>])

\* start line and heading text of every section of ss that starts above line
\* p, in order
SectionsAbove(ss, p) ==
  With(FilterSeq(ss, {i \in 1..Len(ss) : ss[i].startLine < p}), LAMBDA ds :
    [k \in 1..Len(ds) |-> <<ds[k].startLine, ds[k].heading>>])

\* C27 as stated: the two parsers agree on headings for every text: the
\* heading blocks of parseBlocks correspond one-to-one and in order with the
\* non-pinned sections of parseSections, with the same start line and heading
\* text.
C27_ParsersAgreeOnHeadings ==
  (out.fn = "parseBlocks") =>
    HeadingBlocks(out.val) = DraggableSections(parseSections(doc))

\* C27, amended: the heading blocks of parseBlocks correspond one-to-one and
\* in order, with the same start line and heading text, with the sections of
\* parseSections that start above the first pinned heading (all of them
\* non-pinned); a section that starts below the pinned heading has no block.
C27_ParsersAgreeAbovePinned ==
  (out.fn = "parseBlocks") =>
    /\ HeadingBlocks(out.val) = SectionsAbove(parseSections(doc), PinnedStart(doc))
    /\ \A k \in 1..Len(out.val) : out.val[k].startLine < PinnedStart(doc)

\* headings above and below the pinned heading, blocks for the former only
C27_Witness ==
  /\ out.fn = "parseBlocks"
  /\ Len(HeadingBlocks(out.val)) >= 2
  /\ Len(DraggableSections(parseSections(doc))) > Len(HeadingBlocks(out.val))
  /\ \E k \in 1..Len(out.val) : out.val[k].type # "heading"

\* the block indices (0-based) of d in order, without those of the dragged unit
OtherIndices(d, dragged) ==
  With([i \in 1..BlockCount(d) |-> i - 1], LAMBDA all :
    FilterSeq(all, {i \in 1..Len(all) : ~SeqIncludes(dragged, all[i])}))

\* position (1-based) of x in the sequence s, 0 if it is not in s
PositionIn(s, x) == IF SeqIncludes(s, x) THEN CHOOSE k \in 1..Len(s) : s[k] = x ELSE 0

\* the order of the block indices after the dragged unit is put immediately
\* before or immediately after the block target
DroppedOrder(d, dragged, target, before) ==
  With(OtherIndices(d, dragged), LAMBDA rest :
  With(IF before THEN PositionIn(rest, target) - 1 ELSE PositionIn(rest, target),
       LAMBDA k :
    SubSeq(rest, 1, k) \o dragged \o SubSeq(rest, k + 1, Len(rest))))

\* a drop of a unit on the card of another block, after which the text has
\* as many blocks as before
DropOnOther ==
  /\ op.name = "drop"
  /\ ~SeqIncludes(op.idxs, op.a)
  /\ BlockCount(doc) = BlockCount(prev)

\* C28: a dragged unit (one block, or a collapsed heading group) dropped on
\* the upper half of a target card ends up immediately before the target
\* block, and dropped on the lower half immediately after it, whether the
\* unit was above or below the target.
C28_DropPlacement ==
  DropOnOther =>
    LET was   == BlockTexts(prev)
        order == DroppedOrder(prev, op.idxs, op.a, op.b = 1)
    IN  BlockTexts(doc) = [i \in 1..Len(was) |-> was[order[i] + 1]]

\* every heading of d with the lines of its children, in document order
GroupTexts(d) ==
  With(parseBlocks(d), LAMBDA bs :
  With(groupBlocks(bs).groups, LAMBDA gs :
    [k \in 1..Len(gs) |->
       [heading  |-> gs[k].heading.headingText,
        children |-> [c \in 1..Len(gs[k].children) |->
                        Slice(d, gs[k].children[c].startLine,
                                 gs[k].children[c].endLine)]]]))

\* a collapsed group of more than one block was moved with an arrow
GroupMovedByArrow ==
  /\ op.name \in {"moveGroupUp", "moveGroupDown"}
  /\ op.a = 1
  /\ Len(op.idxs) > 1
  /\ committed

\* C29: moving a collapsed heading group with the up or down arrow keeps
\* groups intact: the moved heading and every other heading have exactly the
\* children they had before.
C29_GroupsIntact ==
  GroupMovedByArrow =>
    /\ Len(GroupTexts(doc)) = Len(GroupTexts(prev))
    /\ Elements(GroupTexts(doc)) = Elements(GroupTexts(prev))

\* C30: after any sequence of addSourceToQueue, removeSourceFromQueue and
\* markSourceStatus calls, also when issued back to back, the sources of a
\* project never hold two entries with the same note path and never hold the
\* project's own file, and adding to the queue commits no text to the essay.
C30_SourceQueueInvariant ==
  /\ \A i, j \in 1..Len(project.sources) :
       project.sources[i].notePath = project.sources[j].notePath => i = j
  /\ ~HasSource(project.sources, project.filePath)
  /\ op.name = "addSourceToQueue" => (~committed /\ doc = prev)

\* a source sent again, while the saves of the calls that added two sources
\* are still awaited, is refused
C30_Witness ==
  /\ op.name = "addSourceToQueue"
  /\ notice = "is already in sources"
  /\ Len(project.sources) = 2
  /\ Len(saving) >= 2

====
